---- MODULE Spec2Model ----
(***************************************************************************)
(* A model of camel-snake-pep8 (src/camel_snake_pep8.py): the name-style   *)
(* converters, the placeholder mangler, the change ledgers, the            *)
(* interactive rename session and the top-level run with its cleanup.      *)
(*                                                                         *)
(* Text is modelled character by character: a string is a sequence of      *)
(* one-character strings, so that the regular expressions and substring    *)
(* tests of the source are computed, not assumed.                          *)
(***************************************************************************)
EXTENDS Integers, Sequences, FiniteSets, TLC

(***************************************************************************)
(* Characters and strings.                                                 *)
(***************************************************************************)

LowerLetters ==
    << "a", "b", "c", "d", "e", "f", "g", "h", "i", "j", "k", "l", "m",
       "n", "o", "p", "q", "r", "s", "t", "u", "v", "w", "x", "y", "z" >>

UpperLetters ==
    << "A", "B", "C", "D", "E", "F", "G", "H", "I", "J", "K", "L", "M",
       "N", "O", "P", "Q", "R", "S", "T", "U", "V", "W", "X", "Y", "Z" >>

DigitChars == << "0", "1", "2", "3", "4", "5", "6", "7", "8", "9" >>

Range(s) == { s[i] : i \in 1..Len(s) }

IsLower(c) == c \in Range(LowerLetters)

IsUpper(c) == c \in Range(UpperLetters)

IsDigit(c) == c \in Range(DigitChars)

IndexIn(s, c) == CHOOSE i \in 1..Len(s) : s[i] = c

\* str.upper() / str.lower() on one character.
UpperChar(c) == IF IsLower(c) THEN UpperLetters[IndexIn(LowerLetters, c)] ELSE c

LowerChar(c) == IF IsUpper(c) THEN LowerLetters[IndexIn(UpperLetters, c)] ELSE c

\* The name as it is, where the code calls lower().
KeepCase(s) == s

ToLower(s) == [i \in 1..Len(s) |-> LowerChar(s[i])]

\* Python's `sub in s` for strings: s holds sub as a contiguous substring.
MatchesAt(s, i, sub) ==
    /\ i >= 1
    /\ i + Len(sub) - 1 <= Len(s)
    /\ \A k \in 1..Len(sub) : s[i + k - 1] = sub[k]

Contains(s, sub) == \E i \in 1..(Len(s) + 1) : MatchesAt(s, i, sub)

\* The end (inclusive) of the longest run of characters satisfying the class
\* test that starts at position i; i - 1 when s[i] is not in the class.
RECURSIVE DigitRunEnd(_, _)
DigitRunEnd(s, i) ==
    IF i <= Len(s) /\ IsDigit(s[i]) THEN DigitRunEnd(s, i + 1) ELSE i - 1

RECURSIVE LowerRunEnd(_, _)
LowerRunEnd(s, i) ==
    IF i <= Len(s) /\ IsLower(s[i]) THEN LowerRunEnd(s, i + 1) ELSE i - 1

\* str(n) for n >= 0.
RECURSIVE IntToStr(_)
IntToStr(n) ==
    IF n < 10 THEN << DigitChars[n + 1] >>
    ELSE IntToStr(n \div 10) \o << DigitChars[(n % 10) + 1] >>

(***************************************************************************)
(* Placeholder mangler.                                                    *)
(***************************************************************************)

REJECTED_CHANGE_MAGIC_COOKIE ==
    << "_", "X", "x", "X", "_",
       "C", "a", "m", "e", "l", "S", "n", "a", "k", "e", "P", "e", "p", "8",
       "_", "P", "r", "e", "s", "e", "r", "v", "e", "N", "a", "m", "e",
       "_", "X", "x", "X", "_" >>

\* The value create_rejected_change_preserve_name returns once the counter
\* has been incremented to `counter`.
PreserveName(name, counter) ==
    name \o REJECTED_CHANGE_MAGIC_COOKIE \o IntToStr(counter)

\* A match of the pattern REJECTED_CHANGE_MAGIC_COOKIE + r"\d+" starts at i.
CookieMatchAt(text, i) ==
    /\ MatchesAt(text, i, REJECTED_CHANGE_MAGIC_COOKIE)
    /\ i + Len(REJECTED_CHANGE_MAGIC_COOKIE) <= Len(text)
    /\ IsDigit(text[i + Len(REJECTED_CHANGE_MAGIC_COOKIE)])

\* The start of the leftmost match of the pattern at or after position i;
\* 0 when there is none.
FirstCookieMatch(text, i) ==
    LET starts == { j \in i..Len(text) : CookieMatchAt(text, j) }
    IN  IF starts = {} THEN 0
        ELSE CHOOSE j \in starts : \A k \in starts : j <= k

\* re.sub(remove_cookie, "", text): leftmost, non-overlapping, greedy \d+.
RECURSIVE RestoreFrom(_, _)
RestoreFrom(text, i) ==
    LET j == FirstCookieMatch(text, i)
    IN  IF j = 0 THEN SubSeq(text, i, Len(text))
        ELSE SubSeq(text, i, j - 1)
             \o RestoreFrom(text,
                    DigitRunEnd(text, j + Len(REJECTED_CHANGE_MAGIC_COOKIE)) + 1)

\* The pattern without its digits: only the cookie is removed.
RECURSIVE RestoreCookieOnlyFrom(_, _)
RestoreCookieOnlyFrom(text, i) ==
    LET j == FirstCookieMatch(text, i)
    IN  IF j = 0 THEN SubSeq(text, i, Len(text))
        ELSE SubSeq(text, i, j - 1)
             \o RestoreCookieOnlyFrom(text, j + Len(REJECTED_CHANGE_MAGIC_COOKIE))

restore_text_cookie_only(text) == RestoreCookieOnlyFrom(text, 1)

\* The pattern with \d for \d+: the cookie and one digit are removed.
RECURSIVE RestoreOneDigitFrom(_, _)
RestoreOneDigitFrom(text, i) ==
    LET j == FirstCookieMatch(text, i)
    IN  IF j = 0 THEN SubSeq(text, i, Len(text))
        ELSE SubSeq(text, i, j - 1)
             \o RestoreOneDigitFrom(text, j + Len(REJECTED_CHANGE_MAGIC_COOKIE) + 1)

restore_text_one_digit(text) == RestoreOneDigitFrom(text, 1)

\* re.sub with count=1: only the first match is removed.
restore_text_first_only(text) ==
    LET j == FirstCookieMatch(text, 1)
    IN  IF j = 0 THEN text
        ELSE SubSeq(text, 1, j - 1)
             \o SubSeq(text,
                    DigitRunEnd(text, j + Len(REJECTED_CHANGE_MAGIC_COOKIE)) + 1,
                    Len(text))

restore_text(text) == RestoreFrom(text, 1)

(***************************************************************************)
(* Name-style converters.                                                  *)
(***************************************************************************)

\* first_cap_re = '(.)([A-Z][a-z]+)' matches at i: any character, then an
\* upper-case letter, then at least one lower-case letter.
FirstCapAt(s, i) ==
    /\ i + 2 <= Len(s)
    /\ IsUpper(s[i + 1])
    /\ IsLower(s[i + 2])

\* first_cap_re.sub(r'\1_\2', s) from position i on.
RECURSIVE FirstCapSub(_, _)
FirstCapSub(s, i) ==
    IF i > Len(s) THEN << >>
    ELSE IF FirstCapAt(s, i)
         THEN LET e == LowerRunEnd(s, i + 2)
              IN  << s[i], "_" >> \o SubSeq(s, i + 1, e) \o FirstCapSub(s, e + 1)
         ELSE << s[i] >> \o FirstCapSub(s, i + 1)

\* all_cap_re = '([a-z0-9])([A-Z])' matches at i.
AllCapAt(s, i) ==
    /\ i + 1 <= Len(s)
    /\ (IsLower(s[i]) \/ IsDigit(s[i]))
    /\ IsUpper(s[i + 1])

\* all_cap_re.sub(r'\1_\2', s) from position i on.
RECURSIVE AllCapSub(_, _)
AllCapSub(s, i) ==
    IF i > Len(s) THEN << >>
    ELSE IF AllCapAt(s, i)
         THEN << s[i], "_", s[i + 1] >> \o AllCapSub(s, i + 2)
         ELSE << s[i] >> \o AllCapSub(s, i + 1)

\* camel_to_snake without its test for all caps and underscores.
camel_to_snake_no_constants(name) == ToLower(AllCapSub(FirstCapSub(name, 1), 1))

\* camel_to_snake: a name of capitals and underscores only is returned as
\* it is; otherwise the two substitutions, then lower().
camel_to_snake(name) ==
    IF \A i \in 1..Len(name) : IsUpper(name[i]) \/ name[i] = "_"
    THEN name
    ELSE ToLower(AllCapSub(FirstCapSub(name, 1), 1))

\* str.split("_"): the list of the (possibly empty) pieces between underscores.
RECURSIVE SplitFrom(_, _, _)
SplitFrom(s, i, cur) ==
    IF i > Len(s) THEN << cur >>
    ELSE IF s[i] = "_" THEN << cur >> \o SplitFrom(s, i + 1, << >>)
         ELSE SplitFrom(s, i + 1, Append(cur, s[i]))

SplitUnderscore(s) == SplitFrom(s, 1, << >>)

\* str.upper() where the code calls str.capitalize().
UpperWord(w) == [i \in 1..Len(w) |-> UpperChar(w[i])]

\* str.capitalize(): first character upper-cased, the rest lower-cased.
Capitalize(w) ==
    [i \in 1..Len(w) |-> IF i = 1 THEN UpperChar(w[i]) ELSE LowerChar(w[i])]

RECURSIVE JoinAll(_)
JoinAll(ws) == IF ws = << >> THEN << >> ELSE Head(ws) \o JoinAll(Tail(ws))

snake_to_camel(name) ==
    LET leading_underscore == Len(name) > 0 /\ name[1] = "_"
        name1 == << UpperChar(name[1]) >> \o Tail(name)
        words == SplitUnderscore(name1)
    IN  IF Len(words) = 1 \/ (Len(words) = 2 /\ leading_underscore)
        THEN name1
        ELSE LET joined_name ==
                     JoinAll([k \in 1..Len(words) |-> Capitalize(words[k])])
             IN  IF leading_underscore THEN << "_" >> \o joined_name
                 ELSE joined_name

(***************************************************************************)
(* The project: source files as token sequences.                           *)
(*                                                                         *)
(* A token is one word of a file as rope's Worder reports it: its text,    *)
(* the syntactic role the Worder predicates give it, and the binding       *)
(* (sym) that rope's Rename resolves it to; sym 0 is a word rope cannot    *)
(* rename, and kind "str" is a textual occurrence inside a string or       *)
(* docstring, which Rename touches only with docs=True.  The file's text   *)
(* is the tokens' names, each followed by one blank.                       *)
(***************************************************************************)

Paths == {"A", "B"}

Tok(n, k, s) == [name |-> n, kind |-> k, sym |-> s]

N_myVar == << "m", "y", "V", "a", "r" >>

N_myVAR == << "m", "y", "V", "A", "R" >>

N_my_var == << "m", "y", "_", "v", "a", "r" >>

N_aA == << "a", "A" >>

N_a_a == << "a", "_", "a" >>

N_fF == << "f", "F" >>

N_myClass == << "m", "y", "C", "l", "a", "s", "s" >>

N_qQ == << "q", "Q" >>

\* The module under test (a_a, a parameter aA, myVar, myVAR, and aA in a
\* docstring) and a second module that uses myVar of the first and has a
\* parameter aA of its own.
InitialFiles ==
    [p \in Paths |->
        IF p = "A"
        THEN << Tok(N_a_a, "var", 1), Tok(N_aA, "param", 2),
                Tok(N_myVar, "var", 3), Tok(N_myVAR, "var", 4),
                Tok(N_aA, "str", 0) >>
        ELSE << Tok(N_myVar, "other", 3), Tok(N_aA, "param", 5) >>]

\* The file lists a run may be started with (fname_list).
FileLists == { << "A" >>, << "A", "B" >> }

\* The five module-level switches, as the source sets them and with
\* assigned-variable processing switched off.
ToggleConfigs ==
    { [change_function_and_method_names |-> TRUE,
       change_function_and_method_arguments |-> TRUE,
       change_function_and_method_keywords |-> TRUE,
       change_assigned_variables |-> v,
       change_class_names |-> TRUE] : v \in BOOLEAN }

\* The sets of files for which project.find_module finds no module.
MissingModuleSets == { {}, {"A"} }

\* What the user may type at a prompt.
Replies ==
    { << >>, << "y" >>, << "Y" >>, << "n" >>, << "N" >>, << "c" >>, << "d" >>,
      << "c", "y" >>, << "d", "c" >>, << "x" >>, << " ", "y" >> }

\* What the user may type as a different name after "c".
AltNames == { N_qQ }

\* The number of times the user asks for a different name in one run.
MaxAltNames == 1

\* What a call of rope's Rename(...).get_changes may do: return the
\* changes, or raise one of the errors get_renaming_changes names, or
\* raise another one.
ProviderOutcomes ==
    { "ok", "RefactoringError", "AttributeError", "SyntaxError", "Exception" }

\* The major versions of the interpreter the program runs under.
PythonVersions == { 2, 3 }

\* The runs explored: under Python 3 every file list, toggle setting and
\* set of missing modules; under Python 2 the runs on the one-file list
\* with every module found.
SessionConfigs ==
    { c \in [fl : FileLists, tg : ToggleConfigs, mm : MissingModuleSets,
             py : PythonVersions] :
        c.py = 2 => (c.fl = << "A" >> /\ c.mm = {}) }

\* get_source_string / open(fname).read(): the text of a file.
RECURSIVE FileString(_)
FileString(toks) ==
    IF toks = << >> THEN << >>
    ELSE Head(toks).name \o << " " >> \o FileString(Tail(toks))

\* The words of a text, each ended by a blank.
RECURSIVE WordsFrom(_, _, _)
WordsFrom(text, i, cur) ==
    LET blanks == { j \in i..Len(text) : text[j] = " " }
    IN  IF blanks = {} THEN << >>
        ELSE LET j == CHOOSE b \in blanks : \A k \in blanks : b <= k
             IN  << cur \o SubSeq(text, i, j - 1) >> \o WordsFrom(text, j + 1, << >>)

\* The character offset (0-based) of token i of a file.
RECURSIVE OffsetOf(_, _)
OffsetOf(toks, i) ==
    IF i <= 1 THEN 0 ELSE OffsetOf(toks, i - 1) + Len(toks[i - 1].name) + 1

\* The tokens that start at the character offset (at most one).
TokensAt(toks, offset) == { i \in 1..Len(toks) : OffsetOf(toks, i) = offset }

(***************************************************************************)
(* Occurrence scanner and change proposer.                                 *)
(***************************************************************************)

NoFlags ==
    [fun_name_defs |-> FALSE, fun_arguments |-> FALSE, fun_keywords |-> FALSE,
     assigned_vars |-> FALSE, class_names |-> FALSE]

\* The if-chain with camel_to_snake in the class branch too.
PossibleChangeAllSnake(toks, i, fl) ==
    LET t == toks[i]
        entry(conv) == << << t.name, OffsetOf(toks, i), conv >> >>
    IN  CASE t.kind = "kw" /\ fl.fun_keywords -> entry(camel_to_snake(t.name))
          [] t.kind \in {"kw", "var"} /\ fl.assigned_vars ->
                 entry(camel_to_snake(t.name))
          [] t.kind = "fun" /\ fl.fun_name_defs -> entry(camel_to_snake(t.name))
          [] t.kind = "param" /\ fl.fun_arguments -> entry(camel_to_snake(t.name))
          [] t.kind = "class" /\ fl.class_names -> entry(camel_to_snake(t.name))
          [] OTHER -> << >>

\* The branch of the scanner's if-chain that a token takes, as a possible
\* change [word, offset, new name], or << >> when it is left unidentified.
PossibleChange(toks, i, fl) ==
    LET t == toks[i]
        entry(conv) == << << t.name, OffsetOf(toks, i), conv >> >>
    IN  CASE t.kind = "kw" /\ fl.fun_keywords -> entry(camel_to_snake(t.name))
          [] t.kind \in {"kw", "var"} /\ fl.assigned_vars ->
                 entry(camel_to_snake(t.name))
          [] t.kind = "fun" /\ fl.fun_name_defs -> entry(camel_to_snake(t.name))
          [] t.kind = "param" /\ fl.fun_arguments -> entry(camel_to_snake(t.name))
          [] t.kind = "class" /\ fl.class_names -> entry(snake_to_camel(t.name))
          [] OTHER -> << >>

RECURSIVE PossibleChangesFrom(_, _, _)
PossibleChangesFrom(toks, i, fl) ==
    IF i > Len(toks) THEN << >>
    ELSE PossibleChange(toks, i, fl) \o PossibleChangesFrom(toks, i + 1, fl)

\* unique_everseen: first occurrences, in order.
RECURSIVE unique_everseen(_, _)
unique_everseen(s, seen) ==
    IF s = << >> THEN << >>
    ELSE IF Head(s) \in seen THEN unique_everseen(Tail(s), seen)
         ELSE << Head(s) >> \o unique_everseen(Tail(s), seen \cup {Head(s)})

\* The filter without its test for the placeholder marker.
KeepChangeNewNameOnly(c) == c[3] # c[1]

\* The filter of the possible changes: no placeholder names, no no-ops.
KeepChange(c) ==
    /\ ~Contains(c[1], REJECTED_CHANGE_MAGIC_COOKIE)
    /\ c[3] # c[1]

\* rope_iterate_worder(file, <flags>), unfiltered=False.
rope_iterate_worder(toks, fl) ==
    unique_everseen(SelectSeq(PossibleChangesFrom(toks, 1, fl), KeepChange), {})

\* set(c[0] for c in rope_iterate_worder(file, unfiltered=True)): every word
\* of the code (a string literal is one word, never an identifier).
AllNames(toks) == { toks[i].name : i \in { j \in 1..Len(toks) : toks[j].kind # "str" } }

(***************************************************************************)
(* The analysis provider (rope's Rename) as the session uses it.           *)
(***************************************************************************)

NoChanges == [none |-> TRUE]

\* Whether Rename(project, module, offset).get_changes(new, docs) would
\* rewrite token t of some file, for the binding sym with the name old.
Renamed(t, sym, old, withDocs) ==
    \/ (t.sym = sym /\ t.kind # "str")
    \/ (withDocs /\ t.kind = "str" /\ t.name = old)

PathSeq == << "A", "B" >>

\* Rename(project, module, offset).get_changes(new_name, docs=docs): the
\* change set, or NoChanges when the offset resolves to nothing renameable.
GetChanges(fs, file, offset, new, withDocs) ==
    LET at == TokensAt(fs[file], offset)
    IN  IF at = {} \/ (\A i \in at : fs[file][i].sym = 0 \/ fs[file][i].kind = "str")
        THEN NoChanges
        ELSE LET t == fs[file][CHOOSE i \in at : TRUE]
                 touched(p) == \E j \in 1..Len(fs[p]) :
                                   Renamed(fs[p][j], t.sym, t.name, withDocs)
             IN  [sym |-> t.sym, old |-> t.name, new |-> new, docs |-> withDocs,
                  resources |-> SelectSeq(PathSeq, touched)]

\* The exception that leaves get_renaming_changes, "none" when it returns.
\* RefactoringError is bound `as error`; AttributeError and SyntaxError are
\* bound `as e`, the name of the local that `return None, e` reads: Python 3
\* unbinds e at the end of the except clause, so that the return raises
\* UnboundLocalError.  The bare except re-raises.
RaisedBy(outcome, py) ==
    CASE outcome = "Exception" -> "Exception"
      [] outcome \in { "AttributeError", "SyntaxError" } /\ py = 3 -> "UnboundLocalError"
      [] OTHER -> "none"

\* get_renaming_changes passing docs=False whatever it is given.
get_renaming_changes_no_docs(fs, file, offset, new, withDocs, outcome) ==
    IF outcome = "ok" THEN GetChanges(fs, file, offset, new, FALSE) ELSE NoChanges

\* get_renaming_changes when it returns: the provider's changes, None when
\* an error was caught.
get_renaming_changes(fs, file, offset, new, withDocs, outcome) ==
    IF outcome = "ok" THEN GetChanges(fs, file, offset, new, withDocs) ELSE NoChanges

\* project.do(changes), the first k changed resources written.
ProjectDo(fs, ch, k) ==
    [p \in Paths |->
        IF \E r \in 1..k : ch.resources[r] = p
        THEN [j \in 1..Len(fs[p]) |->
                 IF Renamed(fs[p][j], ch.sym, ch.old, ch.docs)
                 THEN [fs[p][j] EXCEPT !.name = ch.new]
                 ELSE fs[p][j]]
        ELSE fs[p]]

(***************************************************************************)
(* Change ledgers and post-run analysis.                                   *)
(***************************************************************************)

\* save_changes assigning the set of a path where it adds to it.
save_changes_assign(ledger, realpaths, change) ==
    [p \in Paths |-> IF p \in realpaths THEN {change} ELSE ledger[p]]

\* save_changes(realpath_list, change, ...) on one of the three ledgers.
save_changes(ledger, realpaths, change) ==
    [p \in Paths |-> IF p \in realpaths THEN ledger[p] \cup {change} ELSE ledger[p]]

\* save_set_of_all_names_in_module without its `not in save_dict` test.
SaveNamesOverwrite(save_dict, fs, paths) ==
    [p \in DOMAIN save_dict \cup paths |->
        IF p \in paths THEN AllNames(fs[p]) ELSE save_dict[p]]

\* save_set_of_all_names_in_module for each path of a list: a path already
\* in the dict keeps its entry.
SaveNames(save_dict, fs, paths) ==
    [p \in DOMAIN save_dict \cup paths |->
        IF p \in DOMAIN save_dict THEN save_dict[p] ELSE AllNames(fs[p])]

\* compare_changes_with_final_names searching for the original name
\* whatever the ledger.
compare_changes_original_only(kind, module_realpath_list, changes_dict, final_names, accepted) ==
    { w \in { [ledger |-> kind, path |-> p, name |-> c[1], new_name |-> c[2],
               found |-> { m \in Range(module_realpath_list) :
                              c[1] \in final_names[m] }] :
              p \in Paths, c \in UNION { changes_dict[q] : q \in Paths } } :
        /\ << w.name, w.new_name >> \in changes_dict[w.path]
        /\ w.found # {} }

\* compare_changes_with_final_names: the warnings printed for one ledger.
compare_changes_with_final_names(kind, module_realpath_list, changes_dict, final_names, accepted) ==
    { w \in { [ledger |-> kind, path |-> p, name |-> c[1], new_name |-> c[2],
               found |-> { m \in Range(module_realpath_list) :
                              (IF accepted THEN c[1] ELSE c[2]) \in final_names[m] }] :
              p \in Paths, c \in UNION { changes_dict[q] : q \in Paths } } :
        /\ << w.name, w.new_name >> \in changes_dict[w.path]
        /\ w.found # {} }

(***************************************************************************)
(* The run: main(), the rename session and the cleanup.                    *)
(***************************************************************************)

VARIABLES
    files,                             \* the source files on disk
    fname_list,                        \* the files given on the command line
    toggles,                           \* the five change_* switches
    missing_modules,                   \* the files project.find_module does not find
    python_version,                    \* sys.version_info[0]
    docs_default,                      \* main's docs
    pc,                                \* where the run is
    exit_cause,                        \* how main() ended
    cleanup_log,                       \* the statements of the finally block run so far
    file_idx,                          \* main's position in fname_list
    category,                          \* main's position in CategoryOrder
    possible_changes,                  \* rope_rename_refactor's argument
    change_idx,                        \* its position in possible_changes
    new_name,                          \* the new name of the current proposal
    docs,                              \* rope_rename_refactor's docs
    changes,                           \* the change set being presented
    warning,
    existing_name_modules,
    conversion_collisions,
    modules_to_change_realpaths,
    original_names_sets_dict,
    final_names_sets_dict,
    modified_modules_set,
    user_accepted_changes_sets_dict,
    user_rejected_changes_sets_dict,
    rope_rejected_changes_sets_dict,
    change_reject_counter,
    yes_no,                            \* the reply just handled, stripped
    decision,                          \* the branch that reply took
    preserve_names,                    \* the placeholder names created so far
    pre_reject_files,                  \* the files as they were before the last rejection's edit
    analysis_warnings,                 \* what analyze_names_in_final_state printed
    alt_names_typed,                   \* how often a different name was typed
    m_phase,                           \* the round trip of a text: where it is
    m_orig,                            \* the words of the text before mangling
    m_words,                           \* the words of the text, some mangled
    m_out,                             \* restore_text of the mangled text
    c_phase,                           \* the conversion of a name: where it is
    c_name,                            \* the name given to the converters
    c_snake,                           \* camel_to_snake(c_name)
    c_camel,                           \* snake_to_camel(c_snake)
    c_round,                           \* camel_to_snake(c_camel)
    c_role,                            \* the role of c_name in the one-word file scanned
    c_category,                        \* the category the file was scanned for
    c_proposals,                       \* what rope_iterate_worder returned for it
    p_phase,                           \* the parsing of a header: where it is
    p_params,                          \* the parameters the header was written from
    p_header,                          \* the header text given to the parser
    p_offset,                          \* the initial offset given to the parser
    p_result                           \* what get_function_param_names did

ctl == << pc, exit_cause, file_idx, category >>

proposal == << possible_changes, change_idx, new_name, docs, changes, warning,
               existing_name_modules, conversion_collisions,
               modules_to_change_realpaths >>

ledgers == << user_accepted_changes_sets_dict, user_rejected_changes_sets_dict,
              rope_rejected_changes_sets_dict >>

config == << fname_list, toggles, missing_modules, python_version >>

vars == << files, config, docs_default, ctl, cleanup_log, proposal,
           original_names_sets_dict, final_names_sets_dict, modified_modules_set,
           ledgers, change_reject_counter, yes_no, decision, preserve_names,
           pre_reject_files, analysis_warnings, alt_names_typed >>

mangling == << m_phase, m_orig, m_words, m_out >>

converting == << c_phase, c_name, c_snake, c_camel, c_round, c_role,
                c_category, c_proposals >>

parsing == << p_phase, p_params, p_header, p_offset, p_result >>

allvars == << vars, mangling, converting, parsing >>

NoReply == << "-" >>

EmptyDict == [p \in {} |-> {}]

EmptyLedger == [p \in Paths |-> {}]

CategoryOrder ==
    << "assigned_vars", "fun_arguments", "fun_name_defs", "fun_keywords",
       "class_names" >>

\* The conditions of the loops without the `if not
\* change_assigned_variables:` around the keyword loop.
CategoryEnabledKeywordsAlways(c, t) ==
    CASE CategoryOrder[c] = "assigned_vars" -> t.change_assigned_variables
      [] CategoryOrder[c] = "fun_arguments" -> t.change_function_and_method_arguments
      [] CategoryOrder[c] = "fun_name_defs" -> t.change_function_and_method_names
      [] CategoryOrder[c] = "fun_keywords" -> t.change_function_and_method_keywords
      [] CategoryOrder[c] = "class_names" -> t.change_class_names

\* The condition under which main() runs the loop of a category.
CategoryEnabled(c, t) ==
    CASE CategoryOrder[c] = "assigned_vars" -> t.change_assigned_variables
      [] CategoryOrder[c] = "fun_arguments" -> t.change_function_and_method_arguments
      [] CategoryOrder[c] = "fun_name_defs" -> t.change_function_and_method_names
      [] CategoryOrder[c] = "fun_keywords" ->
             ~t.change_assigned_variables /\ t.change_function_and_method_keywords
      [] CategoryOrder[c] = "class_names" -> t.change_class_names

\* The flags main() passes to rope_iterate_worder for a category.
CategoryFlags(c) ==
    [f \in DOMAIN NoFlags |-> f = CategoryOrder[c]]

\* The next loop main() enters, starting the search at category c of file f;
\* file n + 1 when there is none.
RECURSIVE NextLoop(_, _, _, _)
NextLoop(f, c, n, t) ==
    IF f > n THEN [file |-> n + 1, cat |-> 1]
    ELSE IF c > Len(CategoryOrder) THEN NextLoop(f + 1, 1, n, t)
         ELSE IF CategoryEnabled(c, t) THEN [file |-> f, cat |-> c]
              ELSE NextLoop(f, c + 1, n, t)

\* The statements of the finally block, in order.
FinallyBlockSwapped ==
    << "analyze_names_in_final_state", "remove_rejected_change_magic_cookies" >>

FinallyBlock ==
    << "remove_rejected_change_magic_cookies", "analyze_names_in_final_state" >>

\* main() is left (it returns, or an exception leaves it): a try without
\* its finally, which cleans up only after a normal return.
LeaveMainNoFinally(cause) ==
    /\ pc' = IF cause = "normal" THEN "finally" ELSE "exited"
    /\ exit_cause' = cause
    /\ file_idx' = 0
    /\ category' = 0

\* main() is left (it returns, or an exception leaves it): control is in
\* the finally block of run_then_fix_rejected_and_analyze.
LeaveMain(cause) ==
    /\ pc' = "finally"
    /\ exit_cause' = cause
    /\ file_idx' = 0
    /\ category' = 0

\* rope_rename_refactor's locals are gone once it has returned.
NoProposal ==
    /\ possible_changes' = << >>
    /\ change_idx' = 0
    /\ new_name' = << >>
    /\ docs' = FALSE
    /\ changes' = NoChanges
    /\ warning' = FALSE
    /\ existing_name_modules' = << >>
    /\ conversion_collisions' = {}
    /\ modules_to_change_realpaths' = << >>

\* `break` out of a category's while loop: on to the next loop, or out of
\* the for loop over the files and out of main().
EnterLoop(f, c) ==
    LET nxt == NextLoop(f, c, Len(fname_list), toggles)
    IN  IF nxt.file > Len(fname_list)
        THEN LeaveMain("normal")
        ELSE /\ pc' = "main"
             /\ file_idx' = nxt.file
             /\ category' = nxt.cat
             /\ exit_cause' = exit_cause

\* rope_rename_refactor returned False.
ReturnFalse == NoProposal /\ EnterLoop(file_idx, category + 1)

\* After an applied edit set the for loop of rope_rename_refactor goes on
\* with the next proposal of the same scan, where the code returns True.
ReturnTrueContinue ==
    IF change_idx < Len(possible_changes)
    THEN /\ change_idx' = change_idx + 1
         /\ new_name' = possible_changes[change_idx + 1][3]
         /\ changes' = NoChanges
         /\ warning' = FALSE
         /\ existing_name_modules' = << >>
         /\ conversion_collisions' = {}
         /\ modules_to_change_realpaths' = << >>
         /\ pc' = "attempt"
         /\ UNCHANGED << possible_changes, docs, exit_cause, file_idx, category >>
    ELSE ReturnFalse

\* rope_rename_refactor returned True: the while loop scans again.
ReturnTrue ==
    /\ NoProposal
    /\ pc' = "main"
    /\ UNCHANGED << exit_cause, file_idx, category >>

source_file_name == fname_list[file_idx]

\* The `if skip_change:` block without its save_changes.
SkipChangeUnrecorded(user_rejected) ==
    /\ UNCHANGED rope_rejected_changes_sets_dict
    /\ user_rejected_changes_sets_dict' = user_rejected
    /\ UNCHANGED user_accepted_changes_sets_dict
    /\ IF change_idx < Len(possible_changes)
       THEN /\ change_idx' = change_idx + 1
            /\ new_name' = possible_changes[change_idx + 1][3]
            /\ changes' = NoChanges
            /\ warning' = FALSE
            /\ existing_name_modules' = << >>
            /\ conversion_collisions' = {}
            /\ modules_to_change_realpaths' = << >>
            /\ pc' = "attempt"
            /\ UNCHANGED << possible_changes, docs, exit_cause, file_idx, category >>
       ELSE ReturnFalse

\* The `if skip_change:` block with a `return False` in place of its
\* `continue`.
SkipChangeReturn(user_rejected) ==
    /\ rope_rejected_changes_sets_dict' =
           save_changes(rope_rejected_changes_sets_dict, {source_file_name},
                        << possible_changes[change_idx][1], new_name >>)
    /\ user_rejected_changes_sets_dict' = user_rejected
    /\ UNCHANGED user_accepted_changes_sets_dict
    /\ ReturnFalse

\* The `if skip_change:` block of rope_rename_refactor and the `continue`
\* of its for loop, with the rejected ledger as it is at that point.
SkipChange(user_rejected) ==
    /\ rope_rejected_changes_sets_dict' =
           save_changes(rope_rejected_changes_sets_dict, {source_file_name},
                        << possible_changes[change_idx][1], new_name >>)
    /\ user_rejected_changes_sets_dict' = user_rejected
    /\ UNCHANGED user_accepted_changes_sets_dict
    /\ IF change_idx < Len(possible_changes)
       THEN /\ change_idx' = change_idx + 1
            /\ new_name' = possible_changes[change_idx + 1][3]
            /\ changes' = NoChanges
            /\ warning' = FALSE
            /\ existing_name_modules' = << >>
            /\ conversion_collisions' = {}
            /\ modules_to_change_realpaths' = << >>
            /\ pc' = "attempt"
            /\ UNCHANGED << possible_changes, docs, exit_cause, file_idx, category >>
       ELSE ReturnFalse

\* The state in which main() is called.
SessionStart(fl, tg, mm, py) ==
    /\ files = InitialFiles
    /\ fname_list = fl
    /\ toggles = tg
    /\ missing_modules = mm
    /\ python_version = py
    /\ docs_default = FALSE
    /\ pc = "start"
    /\ exit_cause = "none"
    /\ cleanup_log = << >>
    /\ file_idx = 0
    /\ category = 0
    /\ possible_changes = << >>
    /\ change_idx = 0
    /\ new_name = << >>
    /\ docs = FALSE
    /\ changes = NoChanges
    /\ warning = FALSE
    /\ existing_name_modules = << >>
    /\ conversion_collisions = {}
    /\ modules_to_change_realpaths = << >>
    /\ original_names_sets_dict = EmptyDict
    /\ final_names_sets_dict = EmptyDict
    /\ modified_modules_set = {}
    /\ user_accepted_changes_sets_dict = EmptyLedger
    /\ user_rejected_changes_sets_dict = EmptyLedger
    /\ rope_rejected_changes_sets_dict = EmptyLedger
    /\ change_reject_counter = 0
    /\ yes_no = NoReply
    /\ decision = "none"
    /\ preserve_names = << >>
    /\ pre_reject_files = << >>
    /\ analysis_warnings = {}
    /\ alt_names_typed = 0

\* No text is being round-tripped.
ManglingIdle ==
    /\ m_phase = "idle"
    /\ m_orig = << >>
    /\ m_words = << >>
    /\ m_out = << >>

NotParsed == [raised |-> "none", names |-> << "-" >>]

\* No header is being parsed.
ParsingIdle ==
    /\ p_phase = "idle"
    /\ p_params = << >>
    /\ p_header = << >>
    /\ p_offset = 0
    /\ p_result = NotParsed

\* No name is being converted.
ConvertingIdle ==
    /\ c_phase = "idle"
    /\ c_name = << >>
    /\ c_snake = << >>
    /\ c_camel = << >>
    /\ c_round = << >>
    /\ c_role = "none"
    /\ c_category = 0
    /\ c_proposals = << >>

Init ==
    /\ \E c \in SessionConfigs : SessionStart(c.fl, c.tg, c.mm, c.py)
    /\ ManglingIdle
    /\ ConvertingIdle
    /\ ParsingIdle

\* main() up to its for loop: the "Modify docs" prompt.
Start ==
    /\ pc = "start"
    /\ UNCHANGED << mangling, converting, parsing >>
    /\ \E reply \in Replies :
           docs_default' = (reply # << >> /\ Contains(<< "y", "Y" >>, reply))
    /\ EnterLoop(1, 1)
    /\ UNCHANGED << files, config, cleanup_log, proposal, original_names_sets_dict,
                    final_names_sets_dict, modified_modules_set, ledgers,
                    change_reject_counter, yes_no, decision, preserve_names,
                    pre_reject_files, analysis_warnings, alt_names_typed >>

\* One turn of a category's while loop up to the first rename attempt:
\* rope_iterate_worder, then rope_rename_refactor's entry.
Scan ==
    /\ pc = "main"
    /\ UNCHANGED << mangling, converting, parsing >>
    /\ LET found == rope_iterate_worder(files[source_file_name],
                                        CategoryFlags(category))
       IN  IF found = << >> \/ source_file_name \in missing_modules
           THEN ReturnFalse
           ELSE /\ possible_changes' = found
                /\ change_idx' = 1
                /\ new_name' = found[1][3]
                /\ docs' = docs_default
                /\ pc' = "attempt"
                /\ UNCHANGED << changes, warning, existing_name_modules,
                                conversion_collisions,
                                modules_to_change_realpaths, exit_cause,
                                file_idx, category >>
    /\ yes_no' = NoReply
    /\ decision' = "none"
    /\ UNCHANGED << files, config, docs_default, cleanup_log,
                    original_names_sets_dict, final_names_sets_dict,
                    modified_modules_set, ledgers, change_reject_counter,
                    preserve_names, pre_reject_files, analysis_warnings, alt_names_typed >>

\* The original name and the offset of the proposal being handled.
name == possible_changes[change_idx][1]

offset == possible_changes[change_idx][2]

\* The modules of a change set in which the new name was among the names
\* saved in original_names_sets_dict.
ExistingNameModules(resources, names_dict, new) ==
    LET existed(c) == new \in names_dict[c]
    IN  SelectSeq(resources, existed)

\* The collisions of a proposal with the changes accepted so far, without
\* the test that the accepted original name differs.
ConversionCollisionsAnyName(resources, accepted, old, new) ==
    { t \in { << c, ch[1], ch[2] >> :
                c \in Range(resources),
                ch \in UNION { accepted[q] : q \in Paths } } :
        /\ << t[2], t[3] >> \in accepted[t[1]]
        /\ new = t[3] }

\* `if new_name == accepted_new_name and accepted_name != name`, for every
\* changed resource c and every change accepted for c.
ConversionCollisions(resources, accepted, old, new) ==
    { t \in { << c, ch[1], ch[2] >> :
                c \in Range(resources),
                ch \in UNION { accepted[q] : q \in Paths } } :
        /\ << t[2], t[3] >> \in accepted[t[1]]
        /\ new = t[3]
        /\ t[2] # old }

\* The presentation without the update of modified_modules_set.
PresentUntracked(ch) ==
    LET realpaths == Range(ch.resources)
        names_dict == SaveNames(original_names_sets_dict, files, realpaths)
        existing == ExistingNameModules(ch.resources, names_dict, new_name)
        collisions == ConversionCollisions(ch.resources,
                          user_accepted_changes_sets_dict, name, new_name)
    IN  /\ changes' = ch
        /\ modules_to_change_realpaths' = ch.resources
        /\ original_names_sets_dict' = names_dict
        /\ modified_modules_set' = modified_modules_set
        /\ existing_name_modules' = existing
        /\ conversion_collisions' = collisions
        /\ warning' = (existing # << >> \/ collisions # {})
        /\ pc' = "prompt"
        /\ UNCHANGED << possible_changes, change_idx, new_name, docs, ledgers,
                        exit_cause, file_idx, category >>

\* The changed resources of a computed change set are looked at, one by
\* one, and the prompt is reached.
Present(ch) ==
    LET realpaths == Range(ch.resources)
        names_dict == SaveNames(original_names_sets_dict, files, realpaths)
        existing == ExistingNameModules(ch.resources, names_dict, new_name)
        collisions == ConversionCollisions(ch.resources,
                          user_accepted_changes_sets_dict, name, new_name)
    IN  /\ changes' = ch
        /\ modules_to_change_realpaths' = ch.resources
        /\ original_names_sets_dict' = names_dict
        /\ modified_modules_set' = modified_modules_set \cup realpaths
        /\ existing_name_modules' = existing
        /\ conversion_collisions' = collisions
        /\ warning' = (existing # << >> \/ collisions # {})
        /\ pc' = "prompt"
        /\ UNCHANGED << possible_changes, change_idx, new_name, docs, ledgers,
                        exit_cause, file_idx, category >>

\* The top of rope_rename_refactor's `while True`: the change set of the
\* current proposal is asked for.
Attempt ==
    /\ pc = "attempt"
    /\ UNCHANGED << mangling, converting, parsing >>
    /\ \E outcome \in ProviderOutcomes :
           IF RaisedBy(outcome, python_version) # "none"
           THEN /\ NoProposal
                /\ LeaveMain(RaisedBy(outcome, python_version))
                /\ UNCHANGED << ledgers, original_names_sets_dict,
                                modified_modules_set >>
           ELSE LET ch == get_renaming_changes(files, source_file_name, offset,
                                               new_name, docs, outcome)
                IN  IF ch = NoChanges
                    THEN /\ SkipChange(user_rejected_changes_sets_dict)
                         /\ UNCHANGED << original_names_sets_dict,
                                         modified_modules_set >>
                    ELSE Present(ch)
    /\ yes_no' = NoReply
    /\ decision' = "none"
    /\ UNCHANGED << files, config, docs_default, cleanup_log,
                    final_names_sets_dict, change_reject_counter, preserve_names,
                    pre_reject_files, analysis_warnings, alt_names_typed >>

\* str.strip().
RECURSIVE LStrip(_)
LStrip(s) == IF s # << >> /\ Head(s) = " " THEN LStrip(Tail(s)) ELSE s

RECURSIVE RStrip(_)
RStrip(s) ==
    IF s # << >> /\ s[Len(s)] = " " THEN RStrip(SubSeq(s, 1, Len(s) - 1)) ELSE s

StripBlanks(s) == RStrip(LStrip(s))

\* The default reply set, with the defaults exchanged.
DefaultReplySwapped(typed, warned) ==
    IF typed = << >> \/ ~Contains(<< "d", "c", "y", "Y", "n", "N" >>, typed)
    THEN IF warned THEN << "y" >> ELSE << "n" >>
    ELSE typed

\* `if not yes_no or yes_no not in "dcyYnN"`: the default reply is set.
DefaultReply(typed, warned) ==
    IF typed = << >> \/ ~Contains(<< "d", "c", "y", "Y", "n", "N" >>, typed)
    THEN IF warned THEN << "n" >> ELSE << "y" >>
    ELSE typed

\* The branch of the if-chain that follows the prompt.
Branch(yn) ==
    CASE yn = << "c" >> -> "c"
      [] yn = << "d" >> -> "d"
      [] yn \notin { << "c" >>, << "d" >> } /\ Contains(<< "y", "Y" >>, yn) -> "accept"
      [] OTHER -> "reject"

\* The presentation's locals, which the next turn of the loop recomputes.
ForgetPresentation ==
    /\ changes' = NoChanges
    /\ warning' = FALSE
    /\ existing_name_modules' = << >>
    /\ conversion_collisions' = {}
    /\ modules_to_change_realpaths' = << >>

\* The counter left as it is.
create_rejected_change_preserve_name_same_counter(n, counter) ==
    [counter |-> counter, result |-> PreserveName(n, counter)]

\* create_rejected_change_preserve_name: the counter after the call and
\* the name returned.
create_rejected_change_preserve_name(n, counter) ==
    [counter |-> counter + 1, result |-> PreserveName(n, counter + 1)]

\* project.do(changes), possibly cut short by an interrupt after k files.
DoChanges(ch, isReject) ==
    \E k \in 0..Len(ch.resources) :
        /\ files' = ProjectDo(files, ch, k)
        /\ pre_reject_files' =
               IF files' = files THEN pre_reject_files
               ELSE IF isReject THEN files ELSE << >>
        /\ IF k = Len(ch.resources)
           THEN ReturnTrue
           ELSE NoProposal /\ LeaveMain("interrupt")

\* A reply at "Do the changes? [yncd]" and everything it leads to, up to
\* the next rename attempt, the next scan or the end of main().
Reply ==
    /\ pc = "prompt"
    /\ UNCHANGED << mangling, converting, parsing >>
    /\ \E reply \in Replies :
        LET typed == StripBlanks(reply)
            branch == Branch(DefaultReply(typed, warning))
        IN
        /\ yes_no' = typed
        /\ decision' = branch
        /\ CASE branch = "c" ->
                 /\ alt_names_typed < MaxAltNames
                 /\ alt_names_typed' = alt_names_typed + 1
                 /\ \E alt \in AltNames : new_name' = alt
                 /\ ForgetPresentation
                 /\ pc' = "attempt"
                 /\ UNCHANGED << possible_changes, change_idx, docs, exit_cause,
                                 file_idx, category, files, ledgers,
                                 change_reject_counter, preserve_names,
                                 pre_reject_files >>
             [] branch = "d" ->
                 /\ UNCHANGED alt_names_typed
                 /\ docs' = ~docs
                 /\ ForgetPresentation
                 /\ pc' = "attempt"
                 /\ UNCHANGED << possible_changes, change_idx, new_name,
                                 exit_cause, file_idx, category, files, ledgers,
                                 change_reject_counter, preserve_names,
                                 pre_reject_files >>
             [] branch = "accept" ->
                 /\ user_accepted_changes_sets_dict' =
                        save_changes(user_accepted_changes_sets_dict,
                                     Range(modules_to_change_realpaths),
                                     << name, new_name >>)
                 /\ DoChanges(changes, FALSE)
                 /\ UNCHANGED alt_names_typed
                 /\ UNCHANGED << user_rejected_changes_sets_dict,
                                 rope_rejected_changes_sets_dict,
                                 change_reject_counter, preserve_names >>
             [] branch = "reject" ->
                 LET rejected == save_changes(user_rejected_changes_sets_dict,
                                     Range(modules_to_change_realpaths),
                                     << name, new_name >>)
                     made == create_rejected_change_preserve_name(
                                     name, change_reject_counter)
                 IN  /\ change_reject_counter' = made.counter
                     /\ UNCHANGED alt_names_typed
                     /\ preserve_names' = Append(preserve_names, made.result)
                     /\ \E outcome \in ProviderOutcomes :
                          IF RaisedBy(outcome, python_version) # "none"
                          THEN /\ NoProposal
                               /\ LeaveMain(RaisedBy(outcome, python_version))
                               /\ user_rejected_changes_sets_dict' = rejected
                               /\ UNCHANGED << user_accepted_changes_sets_dict,
                                               rope_rejected_changes_sets_dict,
                                               files, pre_reject_files >>
                          ELSE LET ch == get_renaming_changes(files,
                                             source_file_name, offset,
                                             made.result, FALSE, outcome)
                               IN  IF ch = NoChanges
                                   THEN /\ SkipChange(rejected)
                                        /\ UNCHANGED << files, pre_reject_files >>
                                   ELSE /\ user_rejected_changes_sets_dict' = rejected
                                        /\ DoChanges(ch, TRUE)
                                        /\ UNCHANGED << user_accepted_changes_sets_dict,
                                                        rope_rejected_changes_sets_dict >>
    /\ UNCHANGED << config, docs_default, cleanup_log, original_names_sets_dict,
                    final_names_sets_dict, modified_modules_set,
                    analysis_warnings >>

\* A keyboard interrupt, or the end of input at a prompt, while main() runs.
Interrupt ==
    /\ pc \in { "start", "main", "attempt", "prompt" }
    /\ UNCHANGED << mangling, converting, parsing >>
    /\ NoProposal
    /\ LeaveMain("interrupt")
    /\ yes_no' = NoReply
    /\ decision' = "none"
    /\ UNCHANGED << files, config, docs_default, cleanup_log,
                    original_names_sets_dict, final_names_sets_dict,
                    modified_modules_set, ledgers, change_reject_counter,
                    preserve_names, pre_reject_files, analysis_warnings, alt_names_typed >>

\* A file with restore_text applied to its text.
RestoreFile(toks) ==
    LET words == WordsFrom(restore_text(FileString(toks)), 1, << >>)
    IN  [i \in 1..Len(toks) |-> [toks[i] EXCEPT !.name = words[i]]]

\* The next statement of the finally block is the given one, and it is run.
FinallyStep(statement) ==
    /\ pc = "finally"
    /\ Len(cleanup_log) < Len(FinallyBlock)
    /\ FinallyBlock[Len(cleanup_log) + 1] = statement
    /\ cleanup_log' = Append(cleanup_log, statement)
    /\ pc' = IF Len(cleanup_log) + 1 = Len(FinallyBlock) THEN "exited" ELSE "finally"
    /\ UNCHANGED << exit_cause, file_idx, category >>

\* remove_rejected_change_magic_cookies(modified_modules_set).
RemoveCookies ==
    /\ FinallyStep("remove_rejected_change_magic_cookies")
    /\ UNCHANGED << mangling, converting, parsing >>
    /\ files' = [p \in Paths |->
                    IF p \in modified_modules_set THEN RestoreFile(files[p])
                    ELSE files[p]]
    /\ UNCHANGED << config, docs_default, proposal, original_names_sets_dict,
                    final_names_sets_dict, modified_modules_set, ledgers,
                    change_reject_counter, yes_no, decision, preserve_names,
                    pre_reject_files, analysis_warnings, alt_names_typed >>

\* analyze_names_in_final_state([os.path.realpath(f) for f in fname_list]).
AnalyzeNames ==
    /\ FinallyStep("analyze_names_in_final_state")
    /\ UNCHANGED << mangling, converting, parsing >>
    /\ LET final == SaveNames(final_names_sets_dict, files, Range(fname_list))
       IN  /\ final_names_sets_dict' = final
           /\ analysis_warnings' =
                  compare_changes_with_final_names("user_rejected", fname_list,
                      user_rejected_changes_sets_dict, final, FALSE)
                  \cup compare_changes_with_final_names("rope_rejected", fname_list,
                      rope_rejected_changes_sets_dict, final, FALSE)
                  \cup compare_changes_with_final_names("user_accepted", fname_list,
                      user_accepted_changes_sets_dict, final, TRUE)
    /\ UNCHANGED << files, config, docs_default, proposal,
                    original_names_sets_dict, modified_modules_set, ledgers,
                    change_reject_counter, yes_no, decision, preserve_names,
                    pre_reject_files, alt_names_typed >>

Next ==
    \/ Start
    \/ Scan
    \/ Attempt
    \/ Reply
    \/ Interrupt
    \/ RemoveCookies
    \/ AnalyzeNames

Spec == Init /\ [][Next]_allvars

\* ------------------------------------------------------------------------
\* The round trip of a text through create_rejected_change_preserve_name
\* and restore_text, for texts built from words that meet the cookie in
\* every way: a word that is the cookie, ends in it, ends in a prefix of
\* it, or carries cookie and digits already.

MaxWords == 2

MangleCounters == { 1, 10, 25 }

\* The cookie up to the point where its own beginning recurs in it.
CookieHead ==
    SubSeq(REJECTED_CHANGE_MAGIC_COOKIE, 1, Len(REJECTED_CHANGE_MAGIC_COOKIE) - 5)

MangleWords ==
    { << "a" >>, << "a", "1" >>, << "1", "2" >>,
      REJECTED_CHANGE_MAGIC_COOKIE,
      << "x" >> \o REJECTED_CHANGE_MAGIC_COOKIE,
      << "b" >> \o CookieHead,
      << "a" >> \o REJECTED_CHANGE_MAGIC_COOKIE \o << "7" >> }

\* A word that can be renamed: it starts as an identifier does.
IsIdentifier(w) == w # << >> /\ ~IsDigit(w[1])

\* The text of a file whose words are ws, each followed by a blank.
RECURSIVE WordsText(_)
WordsText(ws) ==
    IF ws = << >> THEN << >>
    ELSE ws[1] \o << " " >> \o WordsText(Tail(ws))

\* The pattern of restore_text matches somewhere in the text.
HasCookieMatch(text) == \E i \in 1..Len(text) : CookieMatchAt(text, i)

RECURSIVE WordSeqs(_)
WordSeqs(n) ==
    IF n = 0 THEN { << >> }
    ELSE LET shorter == WordSeqs(n - 1)
         IN  shorter \cup { Append(ws, w) : ws \in shorter, w \in MangleWords }

InitMangle ==
    /\ SessionStart(<< "A" >>, CHOOSE tg \in ToggleConfigs : tg.change_assigned_variables, {}, 3)
    /\ m_phase = "mangling"
    /\ m_orig \in WordSeqs(MaxWords)
    /\ m_words = m_orig
    /\ m_out = << >>
    /\ ConvertingIdle
    /\ ParsingIdle

\* One identifier of the text is replaced by its placeholder name.
MangleOne ==
    /\ m_phase = "mangling"
    /\ \E i \in 1..Len(m_words), k \in MangleCounters :
           /\ m_words[i] = m_orig[i]
           /\ IsIdentifier(m_orig[i])
           /\ m_words' = [m_words EXCEPT ![i] = PreserveName(m_orig[i], k)]
    /\ UNCHANGED << vars, converting, parsing, m_phase, m_orig, m_out >>

\* remove_rejected_change_magic_cookies on the one file.
RestoreAll ==
    /\ m_phase = "mangling"
    /\ m_out' = restore_text(WordsText(m_words))
    /\ m_phase' = "restored"
    /\ UNCHANGED << vars, converting, parsing, m_orig, m_words >>

NextMangle ==
    \/ MangleOne
    \/ RestoreAll

SpecMangle == InitMangle /\ [][NextMangle]_allvars

\* ------------------------------------------------------------------------
\* The converters and the scanner on single names: each name over a small
\* alphabet is converted to snake case, back to camel case and to snake
\* case again, or is scanned as the one word of a file in each role.

MaxNameLen == 5

NameAlphabet == { "a", "A", "B", "_", "1" }

RECURSIVE NamesUpTo(_)
NamesUpTo(n) ==
    IF n = 0 THEN { << >> }
    ELSE LET shorter == NamesUpTo(n - 1)
         IN  shorter \cup { Append(w, ch) : w \in shorter, ch \in NameAlphabet }

\* The identifiers among them.
ConvertNames == { w \in NamesUpTo(MaxNameLen) : IsIdentifier(w) }

\* The roles the scanner gives a word.
Roles == { "var", "param", "fun", "kw", "class" }

InitConvert ==
    /\ SessionStart(<< "A" >>, CHOOSE tg \in ToggleConfigs : tg.change_assigned_variables, {}, 3)
    /\ ManglingIdle
    /\ ParsingIdle
    /\ c_phase = "named"
    /\ c_name \in ConvertNames
    /\ c_snake = << >>
    /\ c_camel = << >>
    /\ c_round = << >>
    /\ c_role = "none"
    /\ c_category = 0
    /\ c_proposals = << >>

ToSnake ==
    /\ c_phase = "named"
    /\ c_snake' = camel_to_snake(c_name)
    /\ c_phase' = "snake"
    /\ UNCHANGED << vars, mangling, parsing, c_name, c_camel, c_round, c_role,
                    c_category, c_proposals >>

ToCamel ==
    /\ c_phase = "snake"
    /\ c_camel' = snake_to_camel(c_snake)
    /\ c_phase' = "camel"
    /\ UNCHANGED << vars, mangling, parsing, c_name, c_snake, c_round, c_role,
                    c_category, c_proposals >>

BackToSnake ==
    /\ c_phase = "camel"
    /\ c_round' = camel_to_snake(c_camel)
    /\ c_phase' = "round"
    /\ UNCHANGED << vars, mangling, parsing, c_name, c_snake, c_camel, c_role,
                    c_category, c_proposals >>

\* rope_iterate_worder for one category on a file whose one word is c_name
\* in some role.
ScanName ==
    /\ c_phase = "named"
    /\ \E role \in Roles, c \in DOMAIN CategoryOrder :
           /\ c_role' = role
           /\ c_category' = c
           /\ c_proposals' =
                  rope_iterate_worder(<< Tok(c_name, role, 1) >>, CategoryFlags(c))
    /\ c_phase' = "scanned"
    /\ UNCHANGED << vars, mangling, parsing, c_name, c_snake, c_camel, c_round >>

NextConvert ==
    \/ ToSnake
    \/ ToCamel
    \/ BackToSnake
    \/ ScanName

SpecConvert == InitConvert /\ [][NextConvert]_allvars

\* ------------------------------------------------------------------------
\* The parameter-list parser on function headers: the header text is put
\* together from parameters of known form and handed to
\* get_function_param_names as rope's get_function_and_args_in_header
\* returns it, from the function name to the closing parenthesis.

MaxParams == 3

\* A parameter as written in a header: its text, its name, whether it has
\* a default value, whether it is variadic, and whether its default value
\* has a comma outside brackets or is preceded by a comment.
Param(t, n, d, v, c, m) ==
    [text |-> t, name |-> n, default |-> d, variadic |-> v, comma |-> c,
     comment |-> m]

\* a plain parameter: a
P_a ==
    Param(<< "a" >>,
          << "a" >>, FALSE, FALSE, FALSE, FALSE)

\* a default value: b=1
P_b ==
    Param(<< "b", "=", "1" >>,
          << "b" >>, TRUE, FALSE, FALSE, FALSE)

\* a type annotation: c: int
P_c ==
    Param(<< "c", ":", " ", "i", "n", "t" >>,
          << "c" >>, FALSE, FALSE, FALSE, FALSE)

\* a variadic parameter: *args
P_args ==
    Param(<< "*", "a", "r", "g", "s" >>,
          << "a", "r", "g", "s" >>, FALSE, TRUE, FALSE, FALSE)

\* a variadic keyword parameter: **kwargs
P_kwargs ==
    Param(<< "*", "*", "k", "w", "a", "r", "g", "s" >>,
          << "k", "w", "a", "r", "g", "s" >>, FALSE, TRUE, FALSE, FALSE)

\* a default that is a string literal with a comma: d='x,y'
P_d ==
    Param(<< "d", "=", "'", "x", ",", "y", "'" >>,
          << "d" >>, TRUE, FALSE, TRUE, FALSE)

\* a default that is a lambda with two arguments: e=lambda p, q: 0
P_e ==
    Param(<< "e", "=", "l", "a", "m", "b", "d", "a", " ", "p", ",", " ", "q", ":", " ", "0" >>,
          << "e" >>, TRUE, FALSE, TRUE, FALSE)

\* a default with a comma inside parentheses: g=(1, 2)
P_g ==
    Param(<< "g", "=", "(", "1", ",", " ", "2", ")" >>,
          << "g" >>, TRUE, FALSE, FALSE, FALSE)

\* an annotation with a comma inside brackets: h: Dict[str, int]
P_h ==
    Param(<< "h", ":", " ", "D", "i", "c", "t", "[", "s", "t", "r", ",", " ", "i", "n", "t", "]" >>,
          << "h" >>, FALSE, FALSE, FALSE, FALSE)

\* a parameter after a comment that holds parentheses: # (x)\nk
P_k ==
    Param(<< "#", " ", "(", "x", ")", "\n", "k" >>,
          << "k" >>, FALSE, FALSE, FALSE, TRUE)

ParamForms ==
    { P_a, P_b, P_c, P_args, P_kwargs,
      P_d, P_e, P_g, P_h, P_k }

RECURSIVE ParamLists(_)
ParamLists(n) ==
    IF n = 0 THEN { << >> }
    ELSE LET shorter == ParamLists(n - 1)
         IN  shorter \cup { Append(ps, p) : ps \in shorter, p \in ParamForms }

\* def f(a, b=1, c: int, *args, **kwargs)
ScenarioParams == << P_a, P_b, P_c, P_args, P_kwargs >>

HeaderParams == ParamLists(MaxParams) \cup { ScenarioParams }

FunName == << "f" >>

\* The parameters' texts with ", " between them.
RECURSIVE JoinParams(_)
JoinParams(ps) ==
    IF ps = << >> THEN << >>
    ELSE IF Len(ps) = 1 THEN ps[1].text
         ELSE ps[1].text \o << ",", " " >> \o JoinParams(Tail(ps))

\* The text of the header from the function name on.
HeaderText(ps) == FunName \o << "(" >> \o JoinParams(ps) \o << ")" >>

\* The offsets at which the function name may stand in its file.
InitialOffsets == { 4, 30 }

\* str.find(ch, start) and str.rfind(ch), with Python's indices from 0.
Find(s, ch, start) ==
    LET hits == { i \in (start + 1)..Len(s) : s[i] = ch }
    IN  IF hits = {} THEN -1
        ELSE (CHOOSE i \in hits : \A j \in hits : i <= j) - 1

RFind(s, ch) ==
    LET hits == { i \in 1..Len(s) : s[i] = ch }
    IN  IF hits = {} THEN -1
        ELSE (CHOOSE i \in hits : \A j \in hits : i >= j) - 1

\* process_param without its test for a default value.
process_param_any(param, start_offset) ==
    LET first_colon_index == Find(param, ":", 0)
        before_colon == IF first_colon_index >= 0
                        THEN SubSeq(param, 1, first_colon_index)
                        ELSE param
        stripped == StripBlanks(before_colon)
    IN  IF stripped = << >> THEN << >>
        ELSE << stripped,
                start_offset + Len(before_colon) - Len(LStrip(before_colon)) >>

\* process_param(param, offset): << >> for [], else << name, offset >>.
process_param(param, start_offset) ==
    IF "=" \in Range(param) THEN << >>
    ELSE LET first_colon_index == Find(param, ":", 0)
             before_colon == IF first_colon_index >= 0
                             THEN SubSeq(param, 1, first_colon_index)
                             ELSE param
             first_non_whitespace_index ==
                 Len(before_colon) - Len(LStrip(before_colon))
             stripped == StripBlanks(before_colon)
         IN  IF stripped = << >> THEN << >>
             ELSE << stripped, start_offset + first_non_whitespace_index >>

\* paren_count before the character at position i (from 1) of fun_list.
ParenCount(fun_list, i) ==
    Cardinality({ j \in 1..(i - 1) : fun_list[j] \in { "(", "[", "{" } })
      - Cardinality({ j \in 1..(i - 1) : fun_list[j] \in { ")", "]", "}" } })

\* The loop that turns the unneeded characters into spaces.
simplified_fun_list(fun_list) ==
    [i \in 1..Len(fun_list) |->
        IF fun_list[i] \in { "(", "[", "{", ")", "]", "}" } THEN " "
        ELSE IF ParenCount(fun_list, i) > 0 \/ fun_list[i] = "*" THEN " "
        ELSE fun_list[i]]

\* The while loop that separates the arguments, from index on.
RECURSIVE final_name_list(_, _, _)
final_name_list(fun_string, index, start_offset) ==
    LET comma_index == Find(fun_string, ",", index)
    IN  IF comma_index < 0 THEN << >>
        ELSE LET arg_string == SubSeq(fun_string, index + 1, comma_index)
                 name_and_offset ==
                     IF arg_string = << >> THEN << >>
                     ELSE process_param(arg_string, start_offset + index)
             IN  (IF name_and_offset = << >> THEN << >>
                  ELSE << name_and_offset >>)
                     \o final_name_list(fun_string, comma_index + 1, start_offset)

\* The closing check without its comparison.
NamesUnchecked(names, initial_fun_string, initial_offset) == TRUE

\* The closing check: every name is found in the header at its offset.
NamesChecked(names, initial_fun_string, initial_offset) ==
    \A k \in 1..Len(names) :
        \A i \in 0..(Len(names[k][1]) - 1) :
            names[k][1][i + 1] =
                initial_fun_string[names[k][2] - initial_offset + i + 1]

Returned(names) == [raised |-> "none", names |-> names]

Raised(e) == [raised |-> e, names |-> << >>]

\* get_function_param_names: the list returned, or the exception raised.
get_function_param_names(initial_fun_string, initial_offset, fun_name_string) ==
    IF initial_fun_string = << >> THEN Returned(<< >>)
    ELSE
    LET index == Find(initial_fun_string, "(", 0) + 1
        fun_name == IF index = 0
                    THEN SubSeq(initial_fun_string, 1, Len(initial_fun_string) - 1)
                    ELSE SubSeq(initial_fun_string, 1, index - 1)
        args == RStrip(SubSeq(initial_fun_string, index + 1, Len(initial_fun_string)))
        start_offset == initial_offset + index
        close_paren_index == RFind(args, ")")
        fun_list == [i \in 1..(close_paren_index + 1) |->
                        IF i = close_paren_index + 1 THEN "," ELSE args[i]]
        names == final_name_list(simplified_fun_list(fun_list), 0, start_offset)
    IN  IF fun_name # fun_name_string THEN Raised("AssertionError")
        ELSE IF close_paren_index < 0 THEN Raised("IndexError")
        ELSE IF ~NamesChecked(names, initial_fun_string, initial_offset)
             THEN Raised("AssertionError")
        ELSE Returned(names)

InitParams ==
    /\ SessionStart(<< "A" >>, CHOOSE tg \in ToggleConfigs : tg.change_assigned_variables, {}, 3)
    /\ ManglingIdle
    /\ ConvertingIdle
    /\ p_phase = "header"
    /\ p_params \in HeaderParams
    /\ p_header = HeaderText(p_params)
    /\ p_offset \in InitialOffsets
    /\ p_result = NotParsed

\* The scanner's call of get_function_param_names for a function header.
ParseHeader ==
    /\ p_phase = "header"
    /\ p_result' = get_function_param_names(p_header, p_offset, FunName)
    /\ p_phase' = "parsed"
    /\ UNCHANGED << vars, mangling, converting, p_params, p_header, p_offset >>

NextParams ==
    \/ ParseHeader

SpecParams == InitParams /\ [][NextParams]_allvars

\* ------------------------------------------------------------------------
\* Properties.

StripStatement == "remove_rejected_change_magic_cookies"

AnalyzeStatement == "analyze_names_in_final_state"

\* C1: however main() ends (it returns, an interrupt or the end of input
\* reaches it during a prompt, a scan or an edit, or another exception
\* leaves it), the program exits only after both cleanup statements ran:
\* no file of modified_modules_set holds a placeholder marker and the final
\* name sets exist for exactly the files given on the command line.
CleanupAlwaysRuns_C1 ==
    pc = "exited" =>
        /\ Range(cleanup_log) = { StripStatement, AnalyzeStatement }
        /\ \A p \in modified_modules_set : ~HasCookieMatch(FileString(files[p]))
        /\ DOMAIN final_names_sets_dict = Range(fname_list)

\* An interrupt ended the run after a placeholder edit had been applied.
InterruptedAfterPlaceholderCleaned_C1 ==
    /\ pc = "exited"
    /\ exit_cause = "interrupt"
    /\ pre_reject_files # << >>
    /\ modified_modules_set # {}

\* C2: at the end of the session the markers are stripped first and only
\* then are the final name sets computed: the analysis never precedes the
\* strip, and the final name sets are the names of the stripped files.
StripThenAnalyze_C2 ==
    /\ (AnalyzeStatement \in Range(cleanup_log) \/ DOMAIN final_names_sets_dict # {})
           => (cleanup_log # << >> /\ cleanup_log[1] = StripStatement)
    /\ pc = "exited" =>
           \A p \in DOMAIN final_names_sets_dict :
               final_names_sets_dict[p] = AllNames(files[p])

\* A session that ran to its end with a rejection applied and both cleanup
\* statements run in that order.
NormalEndStrippedThenAnalyzed_C2 ==
    /\ pc = "exited"
    /\ exit_cause = "normal"
    /\ cleanup_log = << StripStatement, AnalyzeStatement >>
    /\ preserve_names # << >>

\* C3 as stated: the final name sets are computed before the markers are
\* stripped, so no strip precedes the analysis.
AnalysisBeforeStrip_C3 ==
    \A i \in 1..Len(cleanup_log) :
        cleanup_log[i] = AnalyzeStatement =>
            StripStatement \notin Range(SubSeq(cleanup_log, 1, i))

\* C3, amended: the final name sets are computed after the markers were
\* stripped, so no name in them carries a placeholder suffix and no
\* placeholder name generated in the session is among them.
FinalNamesCarryNoSuffix_C3 ==
    \A p \in DOMAIN final_names_sets_dict :
        /\ \A n \in final_names_sets_dict[p] : ~HasCookieMatch(n)
        /\ \A i \in 1..Len(preserve_names) :
               preserve_names[i] \notin final_names_sets_dict[p]

\* The analysis ran over both files after two placeholder edits.
AnalysedAfterPlaceholders_C3 ==
    /\ AnalyzeStatement \in Range(cleanup_log)
    /\ Len(fname_list) = 2
    /\ Len(preserve_names) >= 2
    /\ pre_reject_files # << >>
    /\ \E p \in Paths : HasCookieMatch(FileString(pre_reject_files[p]))

ManglerRoundTrip_C5 ==
    (m_phase = "restored" /\ ~HasCookieMatch(WordsText(m_orig)))
        => m_out = WordsText(m_orig)

\* Two identifiers, one of them ending in the cookie itself, were replaced
\* with different counters of two digits and the text came back.
TwoManglesRestored_C5 ==
    /\ m_phase = "restored"
    /\ Len(m_orig) = 2
    /\ ~HasCookieMatch(WordsText(m_orig))
    /\ m_orig[1] = << "x" >> \o REJECTED_CHANGE_MAGIC_COOKIE
    /\ m_words[1] = PreserveName(m_orig[1], 10)
    /\ m_words[2] = PreserveName(m_orig[2], 25)
    /\ m_out = WordsText(m_orig)

\* C6: change_reject_counter never decreases and increases with every
\* placeholder name generated, and the placeholder names generated in a
\* session are pairwise different.
PlaceholdersDistinct_C6 ==
    /\ [](\A i, j \in 1..Len(preserve_names) :
              i # j => preserve_names[i] # preserve_names[j])
    /\ [][/\ change_reject_counter' >= change_reject_counter
          /\ preserve_names' # preserve_names
                 => change_reject_counter' > change_reject_counter]_allvars

\* Two placeholder names were generated for the same original name.
TwoPlaceholdersSameName_C6 ==
    \E i, j \in 1..Len(preserve_names) :
        /\ i < j
        /\ restore_text(preserve_names[i]) = restore_text(preserve_names[j])

\* C7: at the prompt, the conversion-collision warning is raised exactly
\* when, for one of the affected files, a change accepted earlier has the
\* proposal's new name and another original name.
ConversionCollisionWarning_C7 ==
    pc = "prompt" =>
        /\ (conversion_collisions # {}) <=>
               \E p \in Range(modules_to_change_realpaths) :
                   \E ch \in user_accepted_changes_sets_dict[p] :
                       ch[2] = new_name /\ ch[1] # name
        /\ conversion_collisions # {} => warning

\* myVAR -> my_var is presented after myVar -> my_var was accepted.
SecondConversionWarned_C7 ==
    /\ pc = "prompt"
    /\ name = N_myVAR
    /\ new_name = N_my_var
    /\ << N_myVar, N_my_var >> \in user_accepted_changes_sets_dict["A"]
    /\ conversion_collisions # {}

\* C8 as stated: at the prompt, a file affected by the edit set is named in
\* the pre-existing-name warning exactly when the new name is among the
\* names the file has at that time.
ExistingNameWarningCurrentNames_C8 ==
    pc = "prompt" =>
        \A p \in Range(modules_to_change_realpaths) :
            (p \in Range(existing_name_modules)) <=> (new_name \in AllNames(files[p]))

\* C8, amended: a file affected by the edit set is named in the warning
\* exactly when the new name is among the names saved for the file when a
\* presented proposal first affected it, which are the names the file had
\* before the session changed it.
ExistingNameWarningSavedNames_C8 ==
    pc = "prompt" =>
        \A p \in Range(modules_to_change_realpaths) :
            /\ p \in DOMAIN original_names_sets_dict
            /\ original_names_sets_dict[p] = AllNames(InitialFiles[p])
            /\ (p \in Range(existing_name_modules))
                   <=> (new_name \in AllNames(InitialFiles[p]))
            /\ existing_name_modules # << >> => warning

\* myVAR -> my_var is presented when the file holds my_var through an
\* accepted change, and the pre-existing-name warning is not raised.
IntroducedNameNotWarned_C8 ==
    /\ pc = "prompt"
    /\ name = N_myVAR
    /\ new_name = N_my_var
    /\ N_my_var \in AllNames(files["A"])
    /\ existing_name_modules = << >>

\* C9: an empty reply at the prompt accepts the change (it is recorded as
\* accepted for the affected files) when no warning was given, and rejects
\* it (it is recorded as rejected and a placeholder name is generated) when
\* one was.
EmptyReplyDefault_C9 ==
    [][(pc = "prompt" /\ yes_no' = << >>) =>
          IF warning
          THEN /\ decision' = "reject"
               /\ Len(preserve_names') = Len(preserve_names) + 1
               /\ \A p \in Range(modules_to_change_realpaths) :
                      << name, new_name >> \in user_rejected_changes_sets_dict'[p]
          ELSE /\ decision' = "accept"
               /\ preserve_names' = preserve_names
               /\ \A p \in Range(modules_to_change_realpaths) :
                      << name, new_name >> \in user_accepted_changes_sets_dict'[p]]_allvars

\* An empty reply rejected a proposal and its placeholder edit was applied.
EmptyReplyRejected_C9 ==
    /\ yes_no = << >>
    /\ decision = "reject"
    /\ pre_reject_files # << >>
    /\ files # pre_reject_files

\* C10 as stated: a reply that is none of y, n, c, d (nor Y or N, which the
\* program reads as y and n) is handled as the empty reply is: the change
\* is accepted when no warning was given and rejected when one was.
UnrecognizedReplyIsEmptyReply_C10 ==
    [][(/\ pc = "prompt"
        /\ yes_no' # NoReply
        /\ yes_no' \notin { << "y" >>, << "n" >>, << "c" >>, << "d" >>,
                            << "Y" >>, << "N" >> })
          => decision' = IF warning THEN "reject" ELSE "accept"]_allvars

\* ---- C11 ----

\* C11, for the errors the claim names: a failure of the provider with a
\* refactoring, attribute or syntax error is caught at the rename attempt,
\* so the run is never left by an exception raised while such a failure is
\* handled.  (An error of any other kind is re-raised by the bare except
\* clause and leaves the run with exit_cause "Exception"; the formula does
\* not count that against the program.)
NamedProviderFailureCaught_C11 ==
    exit_cause # "UnboundLocalError"

\* ---- C12 ----

LoopEnds ==
    /\ pc \in { "main", "attempt", "prompt" }
    /\ \/ pc' = "main" /\ << file_idx', category' >> # << file_idx, category >>
       \/ exit_cause = "none" /\ exit_cause' = "normal"

\* rope_iterate_worder on the file of the loop that ends, for its category,
\* after the step.
FreshScan ==
    rope_iterate_worder(files'[source_file_name], CategoryFlags(category))

\* C13 as stated: when the loop of a category ends, a fresh scan of the
\* file for that category returns an empty proposal list.
LoopEndsWithEmptyScan_C13 ==
    [][LoopEnds => FreshScan = << >>]_allvars

\* C13 amended: when the loop of a category ends, a fresh scan of the file
\* for that category is empty, or the module of the file was not found, or
\* the scan returns exactly the proposals of the last invocation, every one
\* of which was skipped because the provider computed no edit set for it
\* and is recorded under its original name in the provider-rejected ledger
\* of the file.
LoopEndsEmptyOrAllSkipped_C13 ==
    [][LoopEnds =>
         \/ FreshScan = << >>
         \/ source_file_name \in missing_modules
         \/ /\ FreshScan = possible_changes
            /\ \A i \in DOMAIN possible_changes :
                 \E r \in rope_rejected_changes_sets_dict'[source_file_name] :
                     r[1] = possible_changes[i][1]]_allvars

\* The loop over the assigned variables of file A, whose module was found,
\* has ended and main() is in a later loop, yet a scan of A for assigned
\* variables still returns proposals.
LoopEndedWithProposalsLeft_C13 ==
    /\ pc = "main"
    /\ toggles.change_assigned_variables
    /\ "A" \notin missing_modules
    /\ << file_idx, category >> # << 1, 1 >>
    /\ rope_iterate_worder(files["A"], CategoryFlags(1)) # << >>

\* ---- C14 ----

\* C14: an invocation of the rename session (from a scan to its return)
\* returns 'change made' exactly in the step in which it applied one whole
\* edit set, the accepted one or the placeholder one of a rejection, and
\* that step ends the invocation; the files change in no other of its
\* steps but one cut short by an interrupt.  Hence whenever a rename
\* request is about to be issued or a proposal is at the prompt, the list
\* of proposals and offsets in use is the one a scan of the file as it is
\* now returns.
OneEditSetPerInvocation_C14 ==
    [][/\ pc \in { "attempt", "prompt" } =>
            LET returnsTrue ==
                    /\ pc' = "main"
                    /\ file_idx' = file_idx /\ category' = category
                appliedAccepted ==
                    /\ pc = "prompt" /\ decision' = "accept"
                    /\ exit_cause' = "none"
                    /\ files' = ProjectDo(files, changes, Len(changes.resources))
                appliedPlaceholder ==
                    /\ pc = "prompt" /\ decision' = "reject"
                    /\ exit_cause' = "none"
                    /\ rope_rejected_changes_sets_dict' =
                           rope_rejected_changes_sets_dict
                    /\ LET ch == GetChanges(files, source_file_name, offset,
                                     preserve_names'[Len(preserve_names')], FALSE)
                       IN  /\ ch # NoChanges
                           /\ files' = ProjectDo(files, ch, Len(ch.resources))
            IN  /\ returnsTrue <=> (appliedAccepted \/ appliedPlaceholder)
                /\ files' # files => (returnsTrue \/ exit_cause' = "interrupt")
       /\ pc' \in { "attempt", "prompt" } =>
            possible_changes' =
                rope_iterate_worder(files'[fname_list'[file_idx']],
                                    CategoryFlags(category'))
      ]_allvars

\* After an accepted and a rejected proposal, each applied by an invocation
\* of its own, a further rename request is about to be issued.
RequestAfterTwoEdits_C14 ==
    /\ pc = "attempt"
    /\ user_accepted_changes_sets_dict["A"] # {}
    /\ user_rejected_changes_sets_dict["A"] # {}
    /\ preserve_names # << >>
    /\ files # InitialFiles

\* ---- C15 ----

\* The place of each role category in the order the claim gives.
RoleRank ==
    [assigned_vars |-> 1, fun_arguments |-> 2, fun_name_defs |-> 3,
     fun_keywords |-> 4, class_names |-> 5]

\* Control is inside main()'s loops.
InMain(p) == p \in { "main", "attempt", "prompt" }

\* C15: while main() runs, the file being processed only moves forward
\* through the list given, one file at a time, and within a file the role
\* category only moves forward in the order assigned variables, parameters
\* without defaults, function and method names, keywords, class names; the
\* keyword category is entered only when assigned-variable processing is
\* switched off, and the assigned-variable category only when it is on; a
\* category is entered only in a step that ends the loop of the category
\* before it, with no proposal of that loop left in hand.
FilesAndCategoriesInOrder_C15 ==
    [][/\ InMain(pc') =>
            /\ file_idx' \in 1..Len(fname_list)
            /\ CategoryOrder[category'] = "fun_keywords"
                   => ~toggles.change_assigned_variables
            /\ CategoryOrder[category'] = "assigned_vars"
                   => toggles.change_assigned_variables
       /\ (pc = "start" /\ InMain(pc')) =>
            /\ file_idx' = 1
            /\ CategoryOrder[category'] =
                   IF toggles.change_assigned_variables
                   THEN "assigned_vars" ELSE "fun_arguments"
       /\ (InMain(pc) /\ InMain(pc')) =>
            /\ \/ /\ file_idx' = file_idx
                  /\ RoleRank[CategoryOrder[category']]
                         >= RoleRank[CategoryOrder[category]]
               \/ /\ file_idx' = file_idx + 1
                  /\ CategoryOrder[category] = "class_names"
            /\ << file_idx', category' >> # << file_idx, category >>
                 => /\ pc' = "main"
                    /\ possible_changes' = << >>
                    /\ RoleRank[CategoryOrder[category']] \in
                         { (RoleRank[CategoryOrder[category]] % 5) + 1,
                           (RoleRank[CategoryOrder[category]] % 5) + 2 }
      ]_allvars

\* The second file given is at its last category, class names, after a
\* change was accepted in the first file.
SecondFileAtClassNames_C15 ==
    /\ pc = "main"
    /\ fname_list[file_idx] = "B"
    /\ CategoryOrder[category] = "class_names"
    /\ user_accepted_changes_sets_dict["A"] # {}

\* ---- C16 ----

\* C16: every proposal of the list a filtered scan returned has a new name
\* different from the old name, and an old name that does not contain the
\* placeholder marker.
ProposalsChangeUnmarkedNames_C16 ==
    \A i \in DOMAIN possible_changes :
        /\ possible_changes[i][3] # possible_changes[i][1]
        /\ ~Contains(possible_changes[i][1], REJECTED_CHANGE_MAGIC_COOKIE)

\* A scan for assigned variables returned proposals for a file that holds
\* an assigned variable under a placeholder name and one whose name the
\* conversion leaves as it is.
ScanPassedOverPlaceholder_C16 ==
    /\ pc = "attempt"
    /\ CategoryOrder[category] = "assigned_vars"
    /\ possible_changes # << >>
    /\ \E j \in DOMAIN files[source_file_name] :
           /\ files[source_file_name][j].kind = "var"
           /\ Contains(files[source_file_name][j].name, REJECTED_CHANGE_MAGIC_COOKIE)
    /\ \E j \in DOMAIN files[source_file_name] :
           /\ files[source_file_name][j].kind = "var"
           /\ camel_to_snake(files[source_file_name][j].name)
                  = files[source_file_name][j].name

\* ------------------------------------------------------------------------
\* Properties of the converters.

\* Every character of the name is an upper-case letter or an underscore.
IsConstantLike(n) == \A i \in 1..Len(n) : IsUpper(n[i]) \/ n[i] = "_"

\* C17: for every identifier in which every character is an upper-case
\* letter or an underscore, camel_to_snake returns the identifier itself,
\* and a scan for assigned variables, parameters, function names or
\* keywords of a file holding it in such a role proposes no change for it.
ConstantNamesLeftAlone_C17 ==
    IsConstantLike(c_name) =>
        /\ c_phase \in { "snake", "camel", "round" } => c_snake = c_name
        /\ (c_phase = "scanned" /\ c_role # "class") => c_proposals = << >>

\* The name A_B was scanned as an assigned variable with the assigned
\* variables asked for.
ConstantConvertedAndScanned_C17 ==
    /\ c_name = << "A", "_", "B" >>
    /\ c_phase = "scanned"
    /\ c_role = "var"
    /\ CategoryOrder[c_category] = "assigned_vars"

\* ---- C18 ----

\* A capital-letter word boundary before position j of n, as the two
\* patterns detect it: a capital after a lower-case letter or a digit, or
\* a capital, not the first character, that begins a lower-case run.
BoundaryAt(n, j) ==
    /\ j > 1
    /\ IsUpper(n[j])
    /\ \/ IsLower(n[j - 1]) \/ IsDigit(n[j - 1])
       \/ j < Len(n) /\ IsLower(n[j + 1])

\* lowercase(n) with one underscore put in at each boundary that is not
\* already preceded by an underscore.
RECURSIVE UnderscoredFrom(_, _)
UnderscoredFrom(n, j) ==
    IF j > Len(n) THEN << >>
    ELSE (IF BoundaryAt(n, j) /\ n[j - 1] # "_" THEN << "_" >> ELSE << >>)
             \o << LowerChar(n[j]) >> \o UnderscoredFrom(n, j + 1)

\* C18 as stated: for every identifier that is not constant-like and has at
\* least one capital-letter word boundary, camel_to_snake(n) contains no
\* upper-case letter and is lowercase(n) with exactly one underscore put in
\* at each boundary not already preceded by an underscore, and none where
\* an underscore already precedes the capital.
OneUnderscorePerBoundary_C18 ==
    (/\ c_phase = "snake"
     /\ ~IsConstantLike(c_name)
     /\ \E j \in 1..Len(c_name) : BoundaryAt(c_name, j))
        => /\ \A i \in 1..Len(c_snake) : ~IsUpper(c_snake[i])
           /\ c_snake = UnderscoredFrom(c_name, 1)

\* ---- C19 ----

\* A digit next to a word boundary of n: next to an underscore, or just
\* before or in place of the letter after a capital-letter boundary.
DigitAtBoundary(n) ==
    \E j \in 1..Len(n) :
        /\ IsDigit(n[j])
        /\ \/ j > 1 /\ n[j - 1] = "_"
           \/ j < Len(n) /\ n[j + 1] = "_"
           \/ j < Len(n) /\ IsUpper(n[j + 1])
           \/ j > 1 /\ IsUpper(n[j - 1])

\* C19 as stated: for every identifier with no leading or trailing
\* underscore and no digit next to a word boundary, converting to snake
\* case, to camel case and to snake case again gives the first snake-case
\* name; names whose words are single letters are included.
RoundTripStable_C19 ==
    (/\ c_phase = "round"
     /\ c_name[1] # "_" /\ c_name[Len(c_name)] # "_"
     /\ ~DigitAtBoundary(c_name))
        => c_round = c_snake

\* Every word of s, the pieces between its underscores, begins with two
\* lower-case letters.
WordsBeginWithTwoLetters(s) ==
    \A k \in DOMAIN SplitUnderscore(s) :
        LET w == SplitUnderscore(s)[k]
        IN  Len(w) >= 2 /\ IsLower(w[1]) /\ IsLower(w[2])

\* C19 amended: the round trip gives the first snake-case name for every
\* identifier whose snake-case name is made of words that each begin with
\* two lower-case letters; this leaves out names with a leading, trailing
\* or doubled underscore, constant-like names, and names with a word of a
\* single letter or a word that begins with a digit.
RoundTripStableForLongWords_C19 ==
    (c_phase = "round" /\ WordsBeginWithTwoLetters(c_snake))
        => c_round = c_snake

\* The name aaBa went through the round trip: aa_ba, AaBa, aa_ba.
TwoWordNameRoundTripped_C19 ==
    /\ c_phase = "round"
    /\ c_name = << "a", "a", "B", "a" >>
    /\ c_snake = << "a", "a", "_", "b", "a" >>
    /\ c_camel = << "A", "a", "B", "a" >>
    /\ c_round = c_snake

\* ---- C20 ----

\* The name the claim gives a class: a name without underscores with its
\* first character upper-cased and the rest as it is; otherwise the
\* capitalized words between the underscores put together, after one
\* underscore when the name begins with one.
CapitalizedWords(n) ==
    IF \A i \in 1..Len(n) : n[i] # "_"
    THEN << UpperChar(n[1]) >> \o Tail(n)
    ELSE (IF n[1] = "_" THEN << "_" >> ELSE << >>)
           \o JoinAll([k \in DOMAIN SplitUnderscore(n) |->
                          Capitalize(SplitUnderscore(n)[k])])

\* C20: when a file whose one word is a class name in a class header is
\* scanned with the class names asked for, the name is proposed exactly
\* when snake_to_camel changes it; the new name proposed is
\* snake_to_camel(name), is not camel_to_snake(name), and is the name with
\* its first letter capitalized when it has no underscore, and otherwise
\* its capitalized words put together after at most one leading
\* underscore.  With another category asked for nothing is proposed.
ClassNamesCapitalized_C20 ==
    (c_phase = "scanned" /\ c_role = "class") =>
        IF CategoryOrder[c_category] = "class_names"
              /\ snake_to_camel(c_name) # c_name
        THEN /\ Len(c_proposals) = 1
             /\ c_proposals[1][1] = c_name
             /\ c_proposals[1][3] = snake_to_camel(c_name)
             /\ c_proposals[1][3] # camel_to_snake(c_name)
             /\ c_proposals[1][3] = CapitalizedWords(c_name)
             /\ Len(c_proposals[1][3]) >= 2 => c_proposals[1][3][2] # "_"
        ELSE c_proposals = << >>

\* The class name _a_aB, of two words after a leading underscore, was
\* scanned and _AAb proposed for it.
UnderscoredClassNameProposed_C20 ==
    /\ c_phase = "scanned"
    /\ c_role = "class"
    /\ c_name = << "_", "a", "_", "a", "B" >>
    /\ c_proposals # << >>
    /\ c_proposals[1][3] = << "_", "A", "A", "b" >>

\* ------------------------------------------------------------------------
\* Properties of the parameter-list parser.

NoDefault(p) == ~p.default

NoDefaultNotVariadic(p) == ~p.default /\ ~p.variadic

\* The names of a list of parameters, in order.
ParamNames(ps) == [k \in 1..Len(ps) |-> ps[k].name]

\* The names of the pairs the parser returned, in order.
ReturnedNames == [k \in 1..Len(p_result.names) |-> p_result.names[k][1]]

\* No default value of the header has a comma outside brackets, and no
\* comment stands in the header.
PlainDefaults(ps) == \A k \in 1..Len(ps) : ~ps[k].comma /\ ~ps[k].comment

\* C21 as stated: for a header the parser returns from (here: one whose
\* default values have no comma outside brackets), it yields exactly the
\* parameters that have no default value and are not variadic, the
\* annotation stripped; for def f(a, b=1, c: int, *args, **kwargs) exactly
\* a and c.
ParamsWithoutDefaultNotVariadic_C21 ==
    (p_phase = "parsed" /\ PlainDefaults(p_params)) =>
        /\ p_result.raised = "none"
        /\ ReturnedNames = ParamNames(SelectSeq(p_params, NoDefaultNotVariadic))

\* C21 amended: for such a header the parser yields exactly the parameters
\* that have no default value, the variadic ones among them under their
\* names without the stars, the annotation stripped; for
\* def f(a, b=1, c: int, *args, **kwargs) it yields a, c, args and kwargs,
\* and not b.
ParamsWithoutDefault_C21 ==
    /\ (p_phase = "parsed" /\ PlainDefaults(p_params)) =>
          /\ p_result.raised = "none"
          /\ ReturnedNames = ParamNames(SelectSeq(p_params, NoDefault))
    /\ (p_phase = "parsed" /\ p_params = ScenarioParams) =>
          ReturnedNames = << P_a.name, P_c.name, P_args.name, P_kwargs.name >>

\* The header def f(a, b=1, c: int, *args, **kwargs) was parsed and four
\* pairs were returned.
ScenarioHeaderParsed_C21 ==
    /\ p_phase = "parsed"
    /\ p_params = ScenarioParams
    /\ p_result.raised = "none"
    /\ Len(p_result.names) = 4

\* ---- C24 ----

\* C24 as stated: every name the parser returns is the name of a parameter
\* of the header that has no default value, also when a default value is a
\* string literal with a comma or a lambda with several arguments.
NoSpuriousParam_C24 ==
    p_phase = "parsed" =>
        \A k \in 1..Len(ReturnedNames) :
            \E j \in 1..Len(p_params) :
                /\ ~p_params[j].default
                /\ p_params[j].name = ReturnedNames[k]

\* ---- C25 ----

\* C25: for every header handed to the parser and every pair (name,
\* offset) it returns, the header text from position offset minus the
\* initial offset on is the name, character for character; where this
\* would fail the parser returns nothing and ends in an assertion failure.
ReturnedOffsetsPointAtNames_C25 ==
    p_phase = "parsed" =>
        /\ p_result.raised \in { "none", "AssertionError" }
        /\ p_result.raised = "AssertionError" => p_result.names = << >>
        /\ \A k \in 1..Len(p_result.names) :
             LET at == p_result.names[k][2] - p_offset
             IN  /\ at >= Len(FunName) + 1
                 /\ SubSeq(p_header, at + 1, at + Len(p_result.names[k][1]))
                        = p_result.names[k][1]

\* The header f(c: int, *args, h: Dict[str, int]) at offset 30 was parsed
\* and three pairs were returned, each name after blanks or stars.
ThreeOffsetsReturned_C25 ==
    /\ p_phase = "parsed"
    /\ p_offset = 30
    /\ p_params = << P_c, P_args, P_h >>
    /\ ReturnedNames = << P_c.name, P_args.name, P_h.name >>

\* ------------------------------------------------------------------------
\* Properties of the run, continued.

\* A warning was printed for the record r held for path p in the ledger
\* called kind.
Warned(kind, p, r) ==
    \E w \in analysis_warnings :
        w.ledger = kind /\ w.path = p /\ w.name = r[1] /\ w.new_name = r[2]

\* The name n is a name of at least one of the files given on the command
\* line, as they are now.
InAGivenFile(n) == \E m \in Range(fname_list) : n \in AllNames(files[m])

\* C22: once the run has exited, with the post-run analysis done over the
\* files given, a warning was issued for a record (original, new) of the
\* accepted ledger exactly when original is a name of at least one of
\* those files in their final state, and for a record of the user-rejected
\* or of the provider-rejected ledger exactly when new is; warnings or not,
\* the analysis is the last statement and the run exits after it.
PostRunWarnings_C22 ==
    /\ pc = "exited" =>
         \A p \in Paths :
            /\ \A r \in user_accepted_changes_sets_dict[p] :
                   Warned("user_accepted", p, r) <=> InAGivenFile(r[1])
            /\ \A r \in user_rejected_changes_sets_dict[p] :
                   Warned("user_rejected", p, r) <=> InAGivenFile(r[2])
            /\ \A r \in rope_rejected_changes_sets_dict[p] :
                   Warned("rope_rejected", p, r) <=> InAGivenFile(r[2])
    /\ analysis_warnings # {} => pc = "exited"

\* The run has exited after an analysis that warned about an accepted
\* change whose original name is still in a given file, and did not warn
\* about a change the user rejected.
WarnedAndNotWarned_C22 ==
    /\ pc = "exited"
    /\ \E w \in analysis_warnings : w.ledger = "user_accepted"
    /\ \E p \in Paths : \E r \in user_rejected_changes_sets_dict[p] :
           ~Warned("user_rejected", p, r)

\* ---- C23 ----

\* A step in which the user rejects the proposal at the prompt and
\* get_renaming_changes returns no changes for the placeholder name: the
\* invocation neither returns True nor is left by an exception or an
\* interrupt.
PlaceholderRenameFailed ==
    /\ pc = "prompt"
    /\ decision' = "reject"
    /\ exit_cause' \in { "none", "normal" }
    /\ ~(pc' = "main" /\ file_idx' = file_idx /\ category' = category)

DocsFlagFlippedForSession_C26 ==
    [][(pc = "prompt" /\ decision' = "d") =>
         /\ docs' = ~docs
         /\ pc' = "attempt" /\ change_idx' = change_idx
         /\ docs_default' = docs'
      ]_allvars

\* C26 amended: the reply d flips the documentation flag of the running
\* invocation of the rename session only, and the same proposal is
\* presented again.  The flipped value is used for the recomputed edit set
\* and for every later one of that invocation until d is given again; the
\* flag main() asked for at the start is not changed, and every invocation
\* starts from it.
DocsFlagFlippedForInvocation_C26 ==
    [][/\ (pc = "prompt" /\ decision' = "d") =>
            /\ docs' = ~docs
            /\ pc' = "attempt"
            /\ change_idx' = change_idx
            /\ possible_changes' = possible_changes
            /\ new_name' = new_name
       /\ (pc = "attempt" /\ pc' = "prompt") =>
            /\ changes'.docs = docs
            /\ docs' = docs
       /\ (InMain(pc) /\ pc' \in { "attempt", "prompt" } /\ decision' # "d") =>
            docs' = IF pc = "main" THEN docs_default ELSE docs
       /\ pc # "start" => docs_default' = docs_default
      ]_allvars

\* Documentation renaming is off for the session; in file A the change
\* aA -> a_a was accepted after a reply d, so that the string aA was
\* renamed too; the proposal for aA in file B is at the prompt with an
\* edit set computed with documentation renaming off again.
LaterProposalWithSessionFlag_C26 ==
    /\ pc = "prompt"
    /\ ~docs_default
    /\ \E j \in DOMAIN files["A"] :
           files["A"][j].kind = "str" /\ files["A"][j].name = N_a_a
    /\ source_file_name = "B"
    /\ name = N_aA
    /\ ~docs
    /\ ~changes.docs

\* ---- C27 ----

\* The file at path p holds a word with the placeholder marker.
HoldsMarker(p) ==
    \E j \in DOMAIN files[p] :
        Contains(files[p][j].name, REJECTED_CHANGE_MAGIC_COOKIE)

\* C27: every file that holds a placeholder name, whether or not it was
\* given on the command line and however main() was left, is in
\* modified_modules_set, so that once the stripping pass of the finally
\* block has run no file holds a placeholder marker.
MarkedFilesAreInModifiedSet_C27 ==
    /\ \A p \in Paths : HoldsMarker(p) => p \in modified_modules_set
    /\ StripStatement \in Range(cleanup_log) =>
           \A p \in Paths : ~HoldsMarker(p)

\* Only file A was given; a rejection's placeholder edit was applied to A
\* and to B, both are in modified_modules_set, and the stripping pass has
\* run.
BothFilesStripped_C27 ==
    /\ fname_list = << "A" >>
    /\ StripStatement \in Range(cleanup_log)
    /\ preserve_names # << >>
    /\ pre_reject_files # << >>
    /\ files["B"] = pre_reject_files["B"]
    /\ modified_modules_set = { "A", "B" }

\* ------------------------------------------------------------------------
\* Properties of the converters, continued.

\* C28: camel_to_snake and snake_to_camel give, applied to their own
\* result for an identifier, that result again; hence a file whose one
\* word is the name that a scan proposed for a word of that role is given
\* no proposal by a scan for the same category.
ConvertersIdempotent_C28 ==
    /\ c_phase # "idle" =>
          /\ camel_to_snake(camel_to_snake(c_name)) = camel_to_snake(c_name)
          /\ snake_to_camel(snake_to_camel(c_name)) = snake_to_camel(c_name)
    /\ c_phase \in { "camel", "round" } => snake_to_camel(c_camel) = c_camel
    /\ (c_phase = "scanned" /\ c_proposals # << >>) =>
          rope_iterate_worder(<< Tok(c_proposals[1][3], c_role, 1) >>,
                              CategoryFlags(c_category)) = << >>

\* The function name aBa was scanned and a_ba proposed for it.
FunctionNameProposedOnce_C28 ==
    /\ c_phase = "scanned"
    /\ c_role = "fun"
    /\ c_name = << "a", "B", "a" >>
    /\ c_proposals # << >>
    /\ c_proposals[1][3] = << "a", "_", "b", "a" >>

\* ------------------------------------------------------------------------
\* The run of a user who never asks for a different name and who, at every
\* proposal, sooner or later accepts or rejects it.

\* A reply other than c.
ReplyNoAlternateName == Reply /\ decision' # "c"

\* A reply that accepts or rejects the proposal.
Decide == Reply /\ decision' \in { "accept", "reject" }

NextNoAlternateName ==
    \/ Start
    \/ Scan
    \/ Attempt
    \/ ReplyNoAlternateName
    \/ Interrupt
    \/ RemoveCookies
    \/ AnalyzeNames

\* The scan of a category is enabled exactly when control is at the top of
\* the category's loop: weak fairness of Scan, the enabling condition
\* written out.
ScanGoesOn ==
    []<>(pc # "main") \/ []<><<Scan>>_allvars

\* A statement of the finally block is enabled exactly when control is in
\* the block: weak fairness of its statements, the enabling condition
\* written out.
FinallyGoesOn ==
    []<>(pc # "finally") \/ []<><<RemoveCookies \/ AnalyzeNames>>_allvars

\* The program takes its steps whenever it can and every prompt is replied
\* to, with whatever reply the user likes; an interrupt may or may not come.
SpecNoAlternateName ==
    /\ Init
    /\ [][NextNoAlternateName]_allvars
    /\ WF_allvars(Start)
    /\ ScanGoesOn
    /\ WF_allvars(Attempt)
    /\ WF_allvars(ReplyNoAlternateName)
    /\ FinallyGoesOn

\* A user who is prompted again and again at last accepts or rejects.
UserDecides == SF_allvars(Decide)

\* The invocation of rope_rename_refactor returns True in this step.
ReturnsChangeMade ==
    /\ pc \in { "attempt", "prompt" }
    /\ pc' = "main"
    /\ file_idx' = file_idx
    /\ category' = category

\* The invocation returns in this step, True or False.
InvocationReturns ==
    /\ pc \in { "attempt", "prompt" }
    /\ pc' \in { "main", "finally" }
    /\ exit_cause' \in { "none", "normal" }

\* The steps of C29: an invocation that returns 'change made' leaves a file
\* for which the next scan of the category yields fewer proposals than the
\* scan before it did, and an invocation that returns without having
\* changed a file ends the loop of the category.
ProposalsDecrease ==
    [][/\ ReturnsChangeMade =>
            Len(FreshScan) < Len(possible_changes)
       /\ (InvocationReturns /\ files' = files) => LoopEnds
      ]_allvars

\* The loops of all categories of all files end, and the run exits.
RunExits == <>(pc = "exited")

\* C29 as stated: if the user never supplies an alternate name, the
\* rescan-and-invoke loop of every category terminates; each invocation that
\* returns 'change made' strictly reduces the number of proposals the next
\* scan yields, and one that applies no edit returns 'no change made', which
\* ends the loop.
LoopsTerminate_C29 == ProposalsDecrease /\ RunExits

\* C29 amended: the invocations that return 'change made' strictly reduce
\* the number of proposals and those that apply no edit end the loop, so
\* that the loops terminate if the user never supplies an alternate name
\* and, prompted again and again, at last accepts or rejects; a user who
\* replies d for ever keeps one invocation from returning.
LoopsTerminateIfUserDecides_C29 ==
    ProposalsDecrease /\ (UserDecides => RunExits)

\* Both files were given; in the second one a rejection's placeholder edit
\* was applied and the loop scans again.
SecondFileRescannedAfterRejection_C29 ==
    /\ pc = "main"
    /\ fname_list[file_idx] = "B"
    /\ decision = "reject"
    /\ HoldsMarker("B")
    /\ alt_names_typed = 0

\* The names a file had before the run changed it.
NamesBeforeTheRun(p) == AllNames(InitialFiles[p])

\* An entry of original_names_sets_dict is left as it is by the step.
SnapshotsKept ==
    \A p \in DOMAIN original_names_sets_dict :
        /\ p \in DOMAIN original_names_sets_dict'
        /\ original_names_sets_dict'[p] = original_names_sets_dict[p]

\* C30: the names saved for a file in original_names_sets_dict, which the
\* pre-existing-name warning consults, are saved before the session applies
\* any edit to the file and are never replaced, so that they are always the
\* names the file had before the run changed it.
SnapshotIsOriginalNames_C30 ==
    /\ [](\A p \in Paths :
            /\ files[p] # InitialFiles[p] => p \in DOMAIN original_names_sets_dict
            /\ p \in DOMAIN original_names_sets_dict =>
                  original_names_sets_dict[p] = NamesBeforeTheRun(p))
    /\ [][SnapshotsKept]_allvars

\* A later proposal that changes file A is presented after the session has
\* changed the names of A: the names saved for A are still the original ones.
SnapshotOlderThanFile_C30 ==
    /\ pc = "prompt"
    /\ "A" \in Range(modules_to_change_realpaths)
    /\ "A" \in DOMAIN original_names_sets_dict
    /\ AllNames(files["A"]) # NamesBeforeTheRun("A")
    /\ original_names_sets_dict["A"] = NamesBeforeTheRun("A")

====
